---- MODULE Spec2Model ----
(***************************************************************************)
(* The position/order state machine of FVGStrategy                         *)
(* (src/strategy/fvg_strategy.py): the scheduler loop run(), the analysis  *)
(* pass analyze_and_trade(), the basket placement _place_basket_order(),   *)
(* the reconciliation pass manage_positions() and display_table(), run     *)
(* against a broker that accepts or rejects orders, changes their status   *)
(* on its own and may fail any call.                                       *)
(***************************************************************************)
EXTENDS Integers, Sequences, FiniteSets, TLC

\* -------------------------------------------------------------------------
\* Bounds and program constants
\* -------------------------------------------------------------------------

\* cap on the number of baskets the broker takes for one instrument
MaxBaskets == 2

\* risk_reward_ratio of the strategy configuration
RiskReward == 1

\* strat_var_lot_size, the 'lot_size' of the configuration
LotSize == 1

\* the None of the stop price of an order built without one
NoPrice == 0

\* the instruments the broker lists; every symbol has the form EXCHANGE:NAME
SymbolSet == {"NFO:ALPHA", "MCX:GOLDM"}

\* the three legs of a basket, in the order of the list built at line 307
Legs == <<"entry", "sl", "target">>

\* order identifiers handed out by the broker: one per instrument, basket and leg
OrderIds == SymbolSet \X (1..MaxBaskets) \X {"entry", "sl", "target"}

\* the None an order-id field holds while no identifier is stored
NoId == <<"None", 0, "None">>

\* the statuses get_order_status reports
OrderStatuses == {"PENDING", "FILLED", "REJECTED", "CANCELLED"}

\* the OHLC extremes of the FVG candle a signal is computed from: <<Low, High>>
FvgCandles == {<<2, 4>>}

\* last traded prices of the market at the time of a reconciliation
Prices == {0, 3, 6}

NonTerminal == {"ATTEMPTING", "PENDING_ENTRY", "OPEN"}

Terminal == {"CLOSED_SL", "CLOSED_TARGET", "FAILED"}

VARIABLES
    symbols,     \* self.symbols: the instruments tracked, in iteration order
    positions,   \* self.positions: symbol -> position record (a dict: the domain grows)
    posKeys,     \* insertion order of the keys of self.positions
    trail,       \* per symbol, every value assigned to pos['status'], in order
    orders,      \* broker: order id -> status ("NONE": no such order)
    cancelReq,   \* broker: the ids cancel_order has been called with
    baskets,     \* broker: per symbol, the number of place_basket_orders calls
    pc,          \* position of run(): "analyze", "manage", "display", "crashed"
    idx,         \* loop index inside the analysis or the reconciliation pass
    adjustments, \* per symbol, the passes that changed the stop of an open position
    last,        \* what the last step of the strategy did and observed
    clock,       \* run(): the wall clock and next_run, in minutes
    df,          \* the candle frame check_entry_conditions is called with
    tracker,     \* the OITrackerStrategy object and the clock it reads
    portfolio,   \* the Portfolio object of a backtest
    engine       \* the last DecisionEngine.run and what was done with its verdict

vars ==
    <<symbols, positions, posKeys, trail, orders, cancelReq, baskets, pc, idx,
      adjustments, last, clock, df, tracker, portfolio, engine>>

\* -------------------------------------------------------------------------
\* Helpers
\* -------------------------------------------------------------------------

\* the record of a step that has observed nothing
NoEvent ==
    [op |-> "none", sym |-> "none", hist |-> "none", qual |-> FALSE,
     placed |-> FALSE, resp |-> <<>>, before |-> "NONE", entry |-> "NOTPOLLED",
     sl |-> "NOTPOLLED", tgt |-> "NOTPOLLED", ltp |-> 3, cancelCalls |-> <<>>,
     raised |-> FALSE, prev |-> "none", basket |-> <<>>]

\* Put with the value stored under every key of the dict
Put_All(d, k, v) == [x \in (DOMAIN d) \cup {k} |-> v]

\* dict assignment d[k] = v
Put(d, k, v) == [x \in (DOMAIN d) \cup {k} |-> IF x = k THEN v ELSE d[x]]

\* the status of the position of s, "NONE" when the dict has no such key
StatusOf(s) == IF s \in DOMAIN positions THEN positions[s].status ELSE "NONE"

\* HasPosition with a test of the status in place of the test of the key: only
\* an open position counts
HasPosition_OpenOnly(ps, s) == s \in DOMAIN ps /\ ps[s].status = "OPEN"

\* `symbol in self.positions`: the test that skips an instrument in the analysis
\* pass and that makes _place_basket_order return without placing anything
HasPosition(ps, s) == s \in DOMAIN ps

\* the identifier the broker gives leg i of basket n of instrument s when it
\* accepts it; a response with status "error" carries no identifier
RespId(s, n, resp, i) == IF resp[i] = "ok" THEN <<s, n, Legs[i]>> ELSE NoId

\* EntryAccepted without the test of the status of the response
EntryAccepted_Unchecked(resp) == TRUE

\* `entry_resp.status == "ok"` (line 315): the first response decides
EntryAccepted(resp) == resp[1] = "ok"

\* the outcome of a basket that is never sent, because the constructor of one
\* of its OrderRequests (lines 286-305, before the try of line 309) has raised
BuildRaised == <<"build_raised">>

\* what place_basket_orders may do: raise, or return between zero and three
\* responses, each with status "ok" or "error"
BasketResponses ==
    {<<"raise">>} \cup UNION {[1..n -> {"ok", "error"}] : n \in 0..3}

\* what the analysis of the two last candles may find: <<long, short>>
Signals == {<<FALSE, FALSE>>, <<TRUE, FALSE>>, <<FALSE, TRUE>>}

\* the answers of a broker that takes or refuses a basket as a whole
WholeResponses ==
    {<<"raise">>, <<"error", "error", "error">>, <<"ok", "ok", "ok">>}

\* the statuses an order may take on the broker's side once it is accepted
FinalStatuses == {"FILLED", "REJECTED", "CANCELLED"}

\* the same with one unfilled final status for a stop or target order:
\* manage_positions compares the status of these with 'FILLED' only
ExitFinalStatuses(leg) ==
    IF leg = "entry" THEN FinalStatuses ELSE {"FILLED", "CANCELLED"}

\* signals of a market in which the first instrument tracked qualifies long
\* entries only and every other one short entries only
OneWaySignals(s) ==
    IF s = symbols[1] THEN {<<FALSE, FALSE>>, <<TRUE, FALSE>>}
    ELSE {<<FALSE, FALSE>>, <<FALSE, TRUE>>}

\* the orders the broker holds after a basket call that answered resp
BrokerAccept(ords, s, n, resp) ==
    IF resp = <<"raise">> \/ resp = BuildRaised THEN ords
    ELSE [id \in DOMAIN ords |->
            IF \E i \in 1..Len(resp) : resp[i] = "ok" /\ id = <<s, n, Legs[i]>>
            THEN "PENDING" ELSE ords[id]]

\* `symbol.split(':', 1)` (line 275) on the symbols listed: <<exchange, name>>
SplitSymbol(s) ==
    IF s = "NFO:ALPHA" THEN <<"NFO", "ALPHA">> ELSE <<"MCX", "GOLDM">>

\* OppositeSide with the side of the entry order for the two exit orders
OppositeSide_Same(transaction_type) == transaction_type

\* `SELL if transaction_type == BUY else BUY` (line 293)
OppositeSide(transaction_type) ==
    IF transaction_type = "BUY" THEN "SELL" ELSE "BUY"

\* an OrderRequest; the target order is built without a stop price
OrderRequest(s, transaction_type, order_type, price, stop_price) ==
    [symbol |-> SplitSymbol(s)[2], exchange |-> SplitSymbol(s)[1],
     transaction_type |-> transaction_type, quantity |-> LotSize,
     product_type |-> "MARGIN", order_type |-> order_type,
     price |-> price, stop_price |-> stop_price]

\* the basket built at lines 285-307
Basket(s, transaction_type, entry_price, stop_loss, target) ==
    <<OrderRequest(s, transaction_type, "STOP", entry_price, entry_price),
      OrderRequest(s, OppositeSide(transaction_type), "STOP", stop_loss, stop_loss),
      OrderRequest(s, OppositeSide(transaction_type), "LIMIT", target, NoPrice)>>

\* _place_basket_order: st is the state it works on (positions, key order,
\* status trail, broker orders, basket count); resp is the broker's answer
PlaceBasketOrder(st, s, transaction_type, entry_price, stop_loss, target, ptype, resp) ==
    IF HasPosition(st.positions, s) THEN st
    ELSE
      LET n == st.baskets[s] + 1
          new == [order_id |-> NoId, sl_order_id |-> NoId, target_order_id |-> NoId,
                  entry_price |-> entry_price, stop_loss |-> stop_loss,
                  target |-> target, status |-> "ATTEMPTING", type |-> ptype]
          failed(r) == [r EXCEPT !.status = "FAILED"]
          \* line 314: order_responses[0] of an empty list raises
          r1 == IF resp = BuildRaised THEN new
                ELSE IF resp = <<"raise">> \/ Len(resp) = 0 THEN failed(new)
                ELSE IF ~EntryAccepted(resp) THEN failed(new)
                ELSE [new EXCEPT !.status = "PENDING_ENTRY",
                                 !.order_id = RespId(s, n, resp, 1)]
          \* line 318: order_responses[1] of a one-element list raises
          r2 == IF r1.status # "PENDING_ENTRY" THEN r1
                ELSE IF Len(resp) < 2 THEN failed(r1)
                ELSE [r1 EXCEPT !.sl_order_id = RespId(s, n, resp, 2)]
          \* line 319: order_responses[2] of a two-element list raises
          r3 == IF r2.status # "PENDING_ENTRY" THEN r2
                ELSE IF Len(resp) < 3 THEN failed(r2)
                ELSE [r2 EXCEPT !.target_order_id = RespId(s, n, resp, 3)]
          path == <<"ATTEMPTING">>
                  \o (IF r1.status = "PENDING_ENTRY" THEN <<"PENDING_ENTRY">> ELSE <<>>)
                  \o (IF r3.status = "FAILED" THEN <<"FAILED">> ELSE <<>>)
      IN  [positions |-> Put(st.positions, s, r3),
           posKeys   |-> IF s \in DOMAIN st.positions THEN st.posKeys
                         ELSE Append(st.posKeys, s),
           trail     |-> [st.trail EXCEPT ![s] = @ \o path],
           orders    |-> BrokerAccept(st.orders, s, n, resp),
           baskets   |-> [st.baskets EXCEPT ![s] = IF resp = BuildRaised THEN @ ELSE n],
           placed    |-> TRUE,
           basket    |-> IF resp = BuildRaised THEN <<>>
                         ELSE Basket(s, transaction_type, entry_price, stop_loss,
                                     target)]

\* `target = entry_price + (entry_price - stop_loss) * risk_reward_ratio` (line 250)
LongTarget(entry_price, stop_loss) ==
    entry_price + (entry_price - stop_loss) * RiskReward

\* ShortTarget with the risk added to the entry price, as for a long position
ShortTarget_Added(entry_price, stop_loss) ==
    entry_price + (stop_loss - entry_price) * RiskReward

\* `target = entry_price - (stop_loss - entry_price) * risk_reward_ratio` (line 264)
ShortTarget(entry_price, stop_loss) ==
    entry_price - (stop_loss - entry_price) * RiskReward

\* check_entry_conditions, from the entry decision onwards: lo and hi are the
\* low and the high of the FVG candle
CheckEntryConditions(st, s, long, short, lo, hi, resp) ==
    LET st1 == IF long
               THEN PlaceBasketOrder(st, s, "BUY", hi, lo, LongTarget(hi, lo), "LONG", resp)
               ELSE st
    IN  IF short
        THEN PlaceBasketOrder(st1, s, "SELL", lo, hi, ShortTarget(lo, hi), "SHORT",
                             resp)
        ELSE st1

\* the state _place_basket_order and manage_positions work on
Current ==
    [positions |-> positions, posKeys |-> posKeys, trail |-> trail,
     orders |-> orders, baskets |-> baskets, placed |-> FALSE, basket |-> <<>>]

\* -------------------------------------------------------------------------
\* Initial state: FVGStrategy.__init__
\* -------------------------------------------------------------------------

\* the clock of a run() that is not observed
NoClock == [phase |-> "none", now |-> 0, next_run |-> 0, started |-> 0]

\* no candle frame observed
NoFrame == [stage |-> "none"]

\* no OI tracker observed
NoTracker == [stage |-> "none"]

\* no backtest portfolio observed
NoPortfolio == [stage |-> "none"]

\* no decision engine observed
NoEngine == [stage |-> "none"]

\* self.symbols, self.positions = {} (lines 26-27) and a broker without orders
Strategy(syms) ==
    /\ symbols = syms
    /\ positions = <<>>
    /\ posKeys = <<>>
    /\ trail = [s \in SymbolSet |-> <<>>]
    /\ orders = [id \in OrderIds |-> "NONE"]
    /\ cancelReq = {}
    /\ baskets = [s \in SymbolSet |-> 0]
    /\ pc = "analyze"
    /\ idx = 1
    /\ adjustments = [s \in SymbolSet |-> 0]
    /\ last = NoEvent

\* the FVG strategy alone
Machine(syms) ==
    /\ Strategy(syms)
    /\ tracker = NoTracker
    /\ portfolio = NoPortfolio
    /\ engine = NoEngine

Start(syms) ==
    /\ Machine(syms)
    /\ clock = NoClock
    /\ df = NoFrame

\* one instrument tracked
Init == Start(<<"NFO:ALPHA">>)

\* two instruments tracked
InitPair == Start(<<"NFO:ALPHA", "MCX:GOLDM">>)

\* -------------------------------------------------------------------------
\* analyze_and_trade: one iteration of the loop over self.symbols
\* -------------------------------------------------------------------------

\* where run() goes after the iteration idx of the analysis pass
AfterAnalyze(keys) ==
    IF idx < Len(symbols) THEN <<"analyze", idx + 1>>
    ELSE IF Len(keys) > 0 THEN <<"manage", 1>>
    ELSE <<"display", 1>>

\* Usable with the candles of an earlier fetch analysed when the fetch returns
\* no data
Usable_NotRaised(fetch) == fetch # "raise"

\* `if not df_raw: continue`, `if df.empty: continue` (lines 120-126) and the
\* jump to `except` (line 140): the entry decision is reached with data only
Usable(fetch) == fetch = "ok"

\* Escapes with an exception of the fetch or the analysis left uncaught
Escapes_Raised(fetch) == fetch = "raise"

\* `try: ... except Exception as e: logger.error(...)` (lines 118-141): nothing
\* raised while an instrument is analysed leaves the loop over the instruments
Escapes(fetch) == FALSE

\* fetch: what get_history and the analysis do ("ok", "empty": no data,
\* "raise": any exception before the entry decision); sig, cdl: what the
\* candles of the instrument qualify; resp: the broker's answer to a basket
AnalyzeSymbol(fetch, sig, cdl, resp) ==
    /\ pc = "analyze"
    /\ LET s == symbols[idx]
           skip == HasPosition(positions, s)
           st == IF skip \/ ~Usable(fetch) THEN Current
                 ELSE CheckEntryConditions(Current, s, sig[1], sig[2],
                                           cdl[1], cdl[2], resp)
       IN  /\ st.baskets[s] <= MaxBaskets
           /\ positions' = st.positions
           /\ posKeys' = st.posKeys
           /\ trail' = st.trail
           /\ orders' = st.orders
           /\ baskets' = st.baskets
           /\ pc' = IF ~skip /\ Escapes(fetch) THEN "crashed"
                    ELSE AfterAnalyze(st.posKeys)[1]
           /\ idx' = IF ~skip /\ Escapes(fetch) THEN 1
                     ELSE AfterAnalyze(st.posKeys)[2]
           /\ last' = [NoEvent EXCEPT
                         !.op = "analyze", !.sym = s,
                         !.hist = IF skip THEN "skipped" ELSE fetch,
                         !.prev = IF idx > 1 THEN last.hist ELSE "none",
                         !.qual = sig[1] \/ sig[2],
                         !.placed = st.placed,
                         !.resp = IF st.placed THEN resp ELSE <<>>,
                         !.before = StatusOf(s),
                         !.basket = st.basket]
    /\ UNCHANGED <<symbols, cancelReq, adjustments, clock, df,
                   tracker, portfolio, engine>>

\* -------------------------------------------------------------------------
\* manage_positions: one iteration of the loop over list(self.positions.items())
\* -------------------------------------------------------------------------

\* the outcome of a poll: "RAISED" when get_order_status raises
PollOutcomes == OrderStatuses \cup {"RAISED"}

\* get_order_status(id) on the broker's books; unk is what the broker answers
\* for an identifier it never issued (the None of a leg it did not accept)
OrderStatus(id, unk) == IF id \in OrderIds THEN orders[id] ELSE unk

\* ExitChecked with the exit orders polled for every position that is not
\* waiting for its entry
ExitChecked_NotPending(status) == status # "PENDING_ENTRY"

\* `if pos['status'] == 'OPEN'` (line 344): the exit orders are polled for an
\* open position only
ExitChecked(status) == status = "OPEN"

\* CancelOnStop cancelling the order that has just filled
CancelOnStop_Same(pos) == pos.sl_order_id

\* the order cancelled when the stop order is found filled (line 348)
CancelOnStop(pos) == pos.target_order_id

\* the order cancelled when the target order is found filled (line 355)
CancelOnTarget(pos) == pos.sl_order_id

\* Reconciled with a stop that is moved up on every pass over an open position
Reconciled_MovingStop(pos, status) ==
    [pos EXCEPT !.status = status,
                !.stop_loss = IF pos.status = "OPEN" /\ status = "OPEN"
                              THEN @ + 1 ELSE @]

\* the record after the body: the body assigns pos['status'] and nothing else
Reconciled(pos, status) == [pos EXCEPT !.status = status]

\* TargetPolled with the target order polled after a stop-out as well
TargetPolled_Always(toSL) == TRUE

\* the `continue` of line 350: the target order is polled only when the stop
\* order has not been found FILLED
TargetPolled(toSL) == ~toSL

\* the body of the loop of manage_positions for one position pos.
\* es, ss, ts: what polling the entry, stop and target order yields if the
\* body polls it; cr: which cancel_order call of the body raises (0: none).
\* Yields the position, the statuses assigned, the polls made, the
\* cancel_order calls made (the raising one included) and whether an exception
\* left the body.
ManageBody(pos, es, ss, ts, cr) ==
    LET pending == pos.status = "PENDING_ENTRY"
        \* lines 332-340
        eRaised == pending /\ es = "RAISED"
        toOpen == pending /\ es = "FILLED"
        toFailed == pending /\ es \in {"REJECTED", "CANCELLED"}
        cancels1 == IF toFailed
                    THEN IF cr = 1 THEN <<pos.sl_order_id>>
                         ELSE <<pos.sl_order_id, pos.target_order_id>>
                    ELSE <<>>
        raised1 == eRaised \/ (toFailed /\ cr \in {1, 2})
        status1 == IF toOpen THEN "OPEN"
                   ELSE IF toFailed THEN "FAILED" ELSE pos.status
        \* lines 344-356
        open == ~raised1 /\ ExitChecked(status1)
        sRaised == open /\ ss = "RAISED"
        toSL == open /\ ss = "FILLED"
        tPolled == open /\ ~sRaised /\ TargetPolled(toSL)
        tRaised == tPolled /\ ts = "RAISED"
        toTarget == tPolled /\ ts = "FILLED"
        cancels2 == IF toSL THEN <<CancelOnStop(pos)>>
                    ELSE IF toTarget THEN <<CancelOnTarget(pos)>> ELSE <<>>
        raised2 == sRaised \/ tRaised \/ ((toSL \/ toTarget) /\ cr = 1)
        status2 == IF toSL THEN "CLOSED_SL"
                   ELSE IF toTarget THEN "CLOSED_TARGET" ELSE status1
    IN  [pos     |-> Reconciled(pos, status2),
         path    |-> (IF status1 # pos.status THEN <<status1>> ELSE <<>>)
                     \o (IF status2 # status1 THEN <<status2>> ELSE <<>>),
         entry   |-> IF pending THEN es ELSE "NOTPOLLED",
         sl      |-> IF open THEN ss ELSE "NOTPOLLED",
         tgt     |-> IF tPolled THEN ts ELSE "NOTPOLLED",
         cancels |-> cancels1 \o cancels2,
         raised  |-> raised1 \/ raised2]

\* the broker's books after the cancel_order calls of one body: a call that
\* returns takes a pending order off the book, the call that raises does not
BrokerCancel(ords, calls, raised) ==
    LET done == IF raised THEN SubSeq(calls, 1, Len(calls) - 1) ELSE calls
    IN  [id \in DOMAIN ords |->
            IF ords[id] = "PENDING" /\ \E i \in 1..Len(done) : done[i] = id
            THEN "CANCELLED" ELSE ords[id]]

\* a pass over an open position that leaves it open with another stop price
\* or other exit orders
Adjusted(old, new) ==
    /\ old.status = "OPEN"
    /\ new.status = "OPEN"
    /\ <<new.stop_loss, new.sl_order_id, new.target_order_id>>
          # <<old.stop_loss, old.sl_order_id, old.target_order_id>>

\* where run() goes after the iteration idx of the reconciliation pass; an
\* exception leaves manage_positions and run(), which catch nothing
AfterManage(raised) ==
    IF raised THEN <<"crashed", 1>>
    ELSE IF idx < Len(posKeys) THEN <<"manage", idx + 1>>
    ELSE <<"display", 1>>

\* er, sr, tr: whether the poll of the entry, stop, target order raises;
\* cr: which cancel_order call raises; unk: the broker's answer for an unknown
\* identifier; ltp: the last traded price of the instrument at that time
ManagePosition(er, sr, tr, cr, unk, ltp) ==
    /\ pc = "manage"
    /\ LET s == posKeys[idx]
           pos == positions[s]
           b == ManageBody(pos,
                           IF er THEN "RAISED" ELSE OrderStatus(pos.order_id, unk),
                           IF sr THEN "RAISED" ELSE OrderStatus(pos.sl_order_id, unk),
                           IF tr THEN "RAISED" ELSE OrderStatus(pos.target_order_id, unk),
                           cr)
       IN  /\ positions' = [positions EXCEPT ![s] = b.pos]
           /\ trail' = [trail EXCEPT ![s] = @ \o b.path]
           /\ orders' = BrokerCancel(orders, b.cancels, b.raised)
           /\ cancelReq' = cancelReq \cup {b.cancels[i] : i \in 1..Len(b.cancels)}
           /\ adjustments' = [adjustments EXCEPT
                                ![s] = IF Adjusted(pos, b.pos) THEN @ + 1 ELSE @]
           /\ pc' = AfterManage(b.raised)[1]
           /\ idx' = AfterManage(b.raised)[2]
           /\ last' = [NoEvent EXCEPT
                         !.op = "manage", !.sym = s, !.before = pos.status,
                         !.entry = b.entry, !.sl = b.sl, !.tgt = b.tgt,
                         !.ltp = ltp, !.cancelCalls = b.cancels,
                         !.raised = b.raised]
    /\ UNCHANGED <<symbols, posKeys, baskets, clock, df,
                   tracker, portfolio, engine>>

\* -------------------------------------------------------------------------
\* display_table, then the sleep until the next 15-minute mark
\* -------------------------------------------------------------------------

\* qr: whether a get_quote call of the table raises (there is one call per
\* position, none with no position)
DisplayTable(qr) ==
    /\ pc = "display"
    /\ LET raised == qr /\ Len(posKeys) > 0
       IN  /\ pc' = IF raised THEN "crashed" ELSE "analyze"
           /\ idx' = 1
           /\ last' = [NoEvent EXCEPT !.op = "display", !.raised = raised]
    /\ UNCHANGED <<symbols, positions, posKeys, trail, orders, cancelReq, baskets,
                   adjustments, clock, df,
                   tracker, portfolio, engine>>

\* -------------------------------------------------------------------------
\* The broker: an order it holds leaves PENDING on its own
\* -------------------------------------------------------------------------

BrokerUpdate(id, st) ==
    /\ orders[id] = "PENDING"
    /\ orders' = [orders EXCEPT ![id] = st]
    /\ UNCHANGED <<symbols, positions, posKeys, trail, cancelReq, baskets, pc, idx,
                   adjustments, last, clock, df,
                   tracker, portfolio, engine>>

\* -------------------------------------------------------------------------
\* Specification
\* -------------------------------------------------------------------------

\* An input the step does not read is fixed to one value, so that a step is
\* enumerated once: an instrument that is skipped fetches nothing, a fetch
\* without data decides nothing, and no basket is sent without a signal.
AnalyzeInputs(fetch, sig, resp) ==
    LET s == symbols[idx]
    IN  /\ pc = "analyze"
        /\ HasPosition(positions, s) => fetch = "ok"
        /\ ~Usable(fetch) => sig = <<FALSE, FALSE>>
        /\ (HasPosition(positions, s) \/ ~Usable(fetch) \/ sig = <<FALSE, FALSE>>)
              => resp = <<>>

\* A poll or a cancel that the body does not make cannot raise, an identifier
\* the broker issued has one status, and the market price is observed for a
\* position that is open.
ManageInputs(er, sr, tr, cr, unk, ltp) ==
    /\ pc = "manage"
    /\ LET pos == positions[posKeys[idx]]
       IN  /\ er => pos.status = "PENDING_ENTRY"
           /\ pos.status \notin {"PENDING_ENTRY", "OPEN"}
                 => ~sr /\ ~tr /\ cr = 0 /\ ltp = 3
           /\ unk # "PENDING" =>
                 \E id \in {pos.order_id, pos.sl_order_id, pos.target_order_id} :
                    id = NoId
           /\ LET b == ManageBody(pos,
                          IF er THEN "RAISED" ELSE OrderStatus(pos.order_id, unk),
                          IF sr THEN "RAISED" ELSE OrderStatus(pos.sl_order_id, unk),
                          IF tr THEN "RAISED" ELSE OrderStatus(pos.target_order_id, unk),
                          cr)
              IN  /\ sr => b.sl = "RAISED"
                  /\ tr => b.tgt = "RAISED"
                  /\ cr > 0 => b.raised /\ cr = Len(b.cancels)
                  /\ ltp # 3 => b.pos.status = "OPEN"

Analyze(responses, oneWay) ==
    \E fetch \in {"ok", "empty", "raise"}, sig \in Signals,
       cdl \in FvgCandles, resp \in responses \cup {<<>>} :
       /\ AnalyzeInputs(fetch, sig, resp)
       /\ oneWay => sig \in OneWaySignals(symbols[idx])
       /\ AnalyzeSymbol(fetch, sig, cdl, resp)

Manage ==
    \E er \in BOOLEAN, sr \in BOOLEAN, tr \in BOOLEAN, cr \in 0..2,
       unk \in OrderStatuses, ltp \in Prices :
       ManageInputs(er, sr, tr, cr, unk, ltp)
          /\ ManagePosition(er, sr, tr, cr, unk, ltp)

Display == \E qr \in BOOLEAN : DisplayTable(qr)

Broker == \E id \in OrderIds, st \in FinalStatuses : BrokerUpdate(id, st)

BrokerPair ==
    \E id \in OrderIds, st \in FinalStatuses :
       st \in ExitFinalStatuses(id[3]) /\ BrokerUpdate(id, st)

\* one instrument, a broker that answers each leg of a basket on its own
Next == Analyze(BasketResponses, FALSE) \/ Manage \/ Display \/ Broker

\* two instruments in a one-way market, a broker that takes or refuses a
\* basket as a whole
NextPair == Analyze(WholeResponses, TRUE) \/ Manage \/ Display \/ BrokerPair

Spec == Init /\ [][Next]_vars

\* one instrument, and OrderRequests whose construction may raise
NextBuild ==
    Analyze(BasketResponses \cup {BuildRaised}, FALSE) \/ Manage \/ Display \/ Broker

SpecBuild == Init /\ [][NextBuild]_vars

SpecPair == InitPair /\ [][NextPair]_vars

\* -------------------------------------------------------------------------
\* run(): the timing of the cycles, in whole minutes
\* -------------------------------------------------------------------------

\* timedelta(minutes=15) and `now.minute % 15` (line 96)
Period == 15

\* the latest minute of the clock observed
MaxClock == 50

\* the longest time the three calls of a cycle take
MaxWork == 17

\* `now - timedelta(minutes=now.minute % 15, seconds=..., microseconds=...)`
Floor(now) == now - (now % Period)

\* run() is entered at any minute of the hour
InitClock ==
    /\ Machine(<<>>)
    /\ df = NoFrame
    /\ \E m \in 0..(Period - 1) :
          clock = [phase |-> "loop", now |-> m, next_run |-> 0, started |-> 0]

\* lines 94-98: the top of the loop reads the clock, computes next_run and
\* enters analyze_and_trade
BeginCycle ==
    /\ clock.phase = "loop"
    /\ clock' = [clock EXCEPT !.phase = "cycle",
                              !.next_run = Floor(clock.now) + Period,
                              !.started = clock.now]
    /\ UNCHANGED <<symbols, positions, posKeys, trail, orders, cancelReq, baskets,
                   pc, idx, adjustments, last, df,
                   tracker, portfolio, engine>>

\* lines 98-105: the three calls take `work` minutes, then the loop sleeps up
\* to next_run when that is still ahead
EndCycle(work) ==
    /\ clock.phase = "cycle"
    /\ clock.now + work <= MaxClock
    /\ LET after == clock.now + work
           sleep_time == clock.next_run - after
       IN  clock' = [clock EXCEPT !.phase = "loop",
                                  !.now = IF sleep_time > 0 THEN after + sleep_time
                                          ELSE after]
    /\ UNCHANGED <<symbols, positions, posKeys, trail, orders, cancelReq, baskets,
                   pc, idx, adjustments, last, df,
                   tracker, portfolio, engine>>

NextClock == BeginCycle \/ \E work \in 0..MaxWork : EndCycle(work)

SpecClock == InitClock /\ [][NextClock]_vars

\* -------------------------------------------------------------------------
\* get_fair_value_gaps on a candle series (rows are numbered from 1 here, from
\* 0 in the data frame)
\* -------------------------------------------------------------------------

\* np.nan: the value of a cell that holds no number (prices are positive)
NaN == -1

\* the literal 0.8 of the threshold (line 190), in tenths
ThresholdTenths == 8

\* the longest candle series analysed
MaxCandles == 4

Candle(o, h, l, c) == [Open |-> o, High |-> h, Low |-> l, Close |-> c]

\* the candles the series are built from: no body return of theirs equals a
\* threshold, where the rounding of the floating-point mean would decide
CandleShapes ==
    {Candle(10, 11, 9, 10), Candle(10, 12, 10, 12), Candle(12, 13, 12, 13),
     Candle(10, 10, 8, 8), Candle(7, 8, 6, 6), Candle(11, 11, 5, 6)}

\* the series of test_fvg_detection
TestSeries ==
    <<Candle(98, 100, 98, 99), Candle(100, 102, 100, 101),
      Candle(102, 105, 101, 104), Candle(109, 112, 108, 110),
      Candle(111, 115, 110, 114)>>

Abs(x) == IF x < 0 THEN -x ELSE x

RECURSIVE OpenProduct(_, _)
\* the product of the opens of the rows 1..k: the common denominator of their
\* body returns
OpenProduct(c, k) == IF k = 0 THEN 1 ELSE c[k].Open * OpenProduct(c, k - 1)

\* bar_delta_percent of row j (line 188), as a multiple of 100 / OpenProduct(c, k)
BarDelta(c, j, k) == (c[j].Close - c[j].Open) * (OpenProduct(c, k) \div c[j].Open)

RECURSIVE AbsDeltaSum(_, _, _)
\* the sum `.abs().expanding()` has seen at row m (line 190), in the same unit
AbsDeltaSum(c, m, k) ==
    IF m = 0 THEN 0 ELSE Abs(BarDelta(c, m, k)) + AbsDeltaSum(c, m - 1, k)

\* IsBullishGap comparing with the high of the candle just before
IsBullishGap_Adjacent(c, i) == i - 1 >= 1 /\ c[i].Low > c[i - 1].High

\* `df['Low'] > df['High'].shift(2)` (line 195): false where the shift has no row
IsBullishGap(c, i) == i - 2 >= 1 /\ c[i].Low > c[i - 2].High

\* `bar_delta_percent.shift(1) > fvg_threshold.shift(1)` (line 196), the
\* threshold being 0.8 * sum / (i - 1)
HasBullishMomentum(c, i) ==
    /\ i - 1 >= 1
    /\ 10 * (i - 1) * BarDelta(c, i - 1, i - 1)
          > ThresholdTenths * AbsDeltaSum(c, i - 1, i - 1)

\* `df['High'] < df['Low'].shift(2)` (line 205)
IsBearishGap(c, i) == i - 2 >= 1 /\ c[i].High < c[i - 2].Low

\* HasBearishMomentum with the size of the body return tested, not its sign
HasBearishMomentum_Magnitude(c, i) ==
    /\ i - 1 >= 1
    /\ 10 * (i - 1) * Abs(BarDelta(c, i - 1, i - 1))
          > ThresholdTenths * AbsDeltaSum(c, i - 1, i - 1)

\* `bar_delta_percent.shift(1) < -fvg_threshold.shift(1)` (line 206)
HasBearishMomentum(c, i) ==
    /\ i - 1 >= 1
    /\ 10 * (i - 1) * BarDelta(c, i - 1, i - 1)
          < -(ThresholdTenths * AbsDeltaSum(c, i - 1, i - 1))

\* the six columns get_fair_value_gaps adds, row by row
GetFairValueGaps(c) ==
    [i \in 1..Len(c) |->
       LET bull == IsBullishGap(c, i) /\ HasBullishMomentum(c, i)
           bear == IsBearishGap(c, i) /\ HasBearishMomentum(c, i)
       IN  [bullish_fvg        |-> bull,
            bullish_fvg_top    |-> IF bull THEN c[i].Low ELSE NaN,
            bullish_fvg_bottom |-> IF bull THEN c[i - 2].High ELSE NaN,
            bearish_fvg        |-> bear,
            bearish_fvg_top    |-> IF bear THEN c[i - 2].Low ELSE NaN,
            bearish_fvg_bottom |-> IF bear THEN c[i].High ELSE NaN]]

\* the candle series handed to get_fair_value_gaps
SeriesSet ==
    {TestSeries} \cup UNION {[1..n -> CandleShapes] : n \in 0..MaxCandles}

InitGaps ==
    /\ Machine(<<>>)
    /\ clock = NoClock
    /\ \E c \in SeriesSet : df = [stage |-> "candles", candles |-> c, gaps |-> <<>>]

FindGaps ==
    /\ df.stage = "candles"
    /\ df' = [df EXCEPT !.stage = "gaps", !.gaps = GetFairValueGaps(df.candles)]
    /\ UNCHANGED <<symbols, positions, posKeys, trail, orders, cancelReq, baskets,
                   pc, idx, adjustments, last, clock,
                   tracker, portfolio, engine>>

NextGaps == FindGaps

SpecGaps == InitGaps /\ [][NextGaps]_vars

\* -------------------------------------------------------------------------
\* check_entry_conditions on a candle frame: the candles with the columns
\* calculate_indicators and get_order_blocks have added
\* -------------------------------------------------------------------------

\* order_block_proximity_percent = 0.5, in tenths
ProximityTenths == 5

Defined(x) == x # NaN

RECURSIVE ColumnSum(_, _)
\* the sum `.mean()` takes over the first m cells of a column: NaN is skipped
ColumnSum(col, m) ==
    IF m = 0 THEN 0
    ELSE (IF Defined(col[m]) THEN col[m] ELSE 0) + ColumnSum(col, m - 1)

\* the number of cells `.mean()` divides by
ColumnCount(col) == Cardinality({j \in 1..Len(col) : Defined(col[j])})

\* RowsUpTo taking the rows of the whole frame
RowsUpTo_Whole(n, k) == 1..n

\* `df.loc[:fvg_candle_index]` (lines 219, 227): a label slice, its end included
RowsUpTo(n, k) == 1..k

\* is_fvg_near_order_block: g are the gap columns, k the row of the FVG candle
IsFvgNearOrderBlock(f, g, k, is_bullish) ==
    LET col == IF is_bullish THEN f.bullish_ob ELSE f.bearish_ob
        recent_obs == {j \in RowsUpTo(Len(col), k) : Defined(col[j])}
        edge == IF is_bullish THEN g[k].bullish_fvg_bottom ELSE g[k].bearish_fvg_top
    IN  IF recent_obs = {} THEN FALSE
        ELSE LET last_ob_level ==
                     col[CHOOSE j \in recent_obs : \A m \in recent_obs : m <= j]
             IN  /\ ColumnCount(f.atr) > 0
                 /\ Defined(edge)
                 /\ 10 * ColumnCount(f.atr) * Abs(edge - last_ob_level)
                       <= ProximityTenths * ColumnSum(f.atr, Len(f.atr))

\* `a > b` and `a < b` on cells: a comparison with NaN is false
Above(a, b) == Defined(b) /\ a > b

Below(a, b) == Defined(b) /\ a < b

\* check_entry_conditions up to the entry decision (lines 236-259): whether the
\* long and the short branch reach _place_basket_order
EntrySignals(f, g) ==
    LET n == Len(f.candles)
    IN  IF n < 3 THEN <<FALSE, FALSE>>
        ELSE
          LET last_candle == f.candles[n]
              k == n - 1
              fvg_candle == f.candles[k]
          IN  << /\ g[k].bullish_fvg
                 /\ IsFvgNearOrderBlock(f, g, k, TRUE)
                 /\ \/ Above(fvg_candle.Close, f.vwap[k])
                    \/ Above(fvg_candle.Close, f.ema200[k])
                 /\ last_candle.High > fvg_candle.High,
                 /\ g[k].bearish_fvg
                 /\ IsFvgNearOrderBlock(f, g, k, FALSE)
                 /\ \/ Below(fvg_candle.Close, f.vwap[k])
                    \/ Below(fvg_candle.Close, f.ema200[k])
                 /\ last_candle.Low < fvg_candle.Low >>

\* <<Low, High>> of the FVG candle of a frame
FvgCandleOf(f) ==
    IF Len(f.candles) < 3 THEN <<0, 0>>
    ELSE <<f.candles[Len(f.candles) - 1].Low, f.candles[Len(f.candles) - 1].High>>

\* the candle series the entry decision is taken on: a bullish and a bearish
\* gap with and without the breakout of the last candle, a gap without
\* momentum, no gap, and series of three and of two candles
EntrySeries ==
    LET P1 == Candle(10, 11, 9, 10)
        P2 == Candle(10, 12, 10, 12)
        P3 == Candle(12, 13, 12, 13)
        Q2 == Candle(10, 10, 8, 8)
        Q3 == Candle(7, 8, 6, 6)
        X1 == Candle(11, 11, 5, 6)
    IN  {<<P1, P2, P3, Candle(13, 15, 13, 14)>>,
         <<P1, P2, P3, Candle(13, 13, 11, 12)>>,
         <<P1, Q2, Q3, Candle(6, 6, 4, 5)>>,
         <<P1, Q2, Q3, Candle(6, 7, 6, 7)>>,
         <<X1, P2, P3, Candle(13, 15, 13, 14)>>,
         <<P1, P2, P2, Candle(13, 15, 13, 14)>>,
         <<P1, P2, P3>>,
         <<P2, P3>>}

\* the values the VWAP and the trend average take
MaLevels == {5, 14}

\* the levels of the order blocks
ObLevels == {10, 14}

\* a column that is NaN in its first `warm` rows and v after
WarmColumn(n, warm, v) == [j \in 1..n |-> IF j <= warm THEN NaN ELSE v]

\* the ATR columns: level 2 throughout, or rising after one undefined row
AtrColumns(n) ==
    {[j \in 1..n |-> 2],
     [j \in 1..n |-> IF j = 1 THEN NaN ELSE IF j = n THEN 12 ELSE 2 * (j - 1)]}

\* the order-block columns: at most two order blocks in a frame
ObColumns(n) ==
    {col \in [1..n -> ObLevels \cup {NaN}] :
        Cardinality({j \in 1..n : Defined(col[j])}) <= 2}

\* the frames analyze_and_trade hands to find_smc_patterns. The warm-up of the
\* trend average leaves the last row or the last two rows defined, or none
\* undefined; the order-block column of a direction is drawn where the FVG
\* candle carries a gap of that direction, the only case in which it is read.
Frames ==
    {f \in UNION {[stage : {"frame"}, candles : {c},
                   vwap : {WarmColumn(Len(c), 0, v) : v \in MaLevels},
                   ema200 : {WarmColumn(Len(c), w, v) :
                               w \in {0, Len(c) - 2, Len(c) - 1}, v \in MaLevels},
                   atr : AtrColumns(Len(c)),
                   bullish_ob : ObColumns(Len(c)),
                   bearish_ob : ObColumns(Len(c)),
                   gaps : {<<>>}] : c \in EntrySeries} :
        LET n == Len(f.candles)
            g == GetFairValueGaps(f.candles)
        IN  /\ ~(n >= 3 /\ g[n - 1].bullish_fvg)
                  => f.bullish_ob = [j \in 1..n |-> NaN]
            /\ ~(n >= 3 /\ g[n - 1].bearish_fvg)
                  => f.bearish_ob = [j \in 1..n |-> NaN]}

\* frames built by hand for a direct call of check_entry_conditions, the gap
\* columns included: the third candle is the FVG candle
DirectFrames ==
    LET c1 == <<Candle(10, 11, 9, 10), Candle(10, 12, 10, 12),
                Candle(12, 13, 12, 13), Candle(13, 15, 13, 14)>>
        c2 == <<Candle(10, 11, 9, 10), Candle(10, 12, 10, 12),
                Candle(12, 13, 12, 13), Candle(13, 15, 11, 12)>>
        none == [bullish_fvg |-> FALSE, bullish_fvg_top |-> NaN,
                 bullish_fvg_bottom |-> NaN, bearish_fvg |-> FALSE,
                 bearish_fvg_top |-> NaN, bearish_fvg_bottom |-> NaN]
        row(b, s) == [bullish_fvg |-> b,
                      bullish_fvg_top |-> IF b THEN 12 ELSE NaN,
                      bullish_fvg_bottom |-> IF b THEN 11 ELSE NaN,
                      bearish_fvg |-> s,
                      bearish_fvg_top |-> IF s THEN 11 ELSE NaN,
                      bearish_fvg_bottom |-> IF s THEN 10 ELSE NaN]
        obs == {<<NaN, NaN, NaN, NaN>>, <<NaN, 10, NaN, NaN>>}
    IN  [stage : {"direct"}, candles : {c1, c2},
         vwap : {WarmColumn(4, 0, v) : v \in MaLevels},
         ema200 : {WarmColumn(4, 0, v) : v \in MaLevels},
         atr : AtrColumns(4),
         bullish_ob : obs,
         bearish_ob : obs,
         gaps : {<<none, none, row(b, s), none>> : b \in BOOLEAN, s \in BOOLEAN}]

InitEntry ==
    /\ Machine(<<"NFO:ALPHA">>)
    /\ clock = NoClock
    /\ df \in Frames

InitDirect ==
    /\ Machine(<<"NFO:ALPHA">>)
    /\ clock = NoClock
    /\ df \in DirectFrames

\* lines 134-138 of analyze_and_trade on the frame: find_smc_patterns adds the
\* gap columns, check_entry_conditions decides and places the basket
AnalyzeFrame(resp) ==
    /\ df.stage = "frame"
    /\ last.op = "none"
    /\ LET sig == EntrySignals(df, GetFairValueGaps(df.candles))
       IN  /\ AnalyzeInputs("ok", sig, resp)
           /\ AnalyzeSymbol("ok", sig, FvgCandleOf(df), resp)

\* check_entry_conditions called with a frame that has its gap columns
CheckFrame(resp) ==
    /\ df.stage = "direct"
    /\ last.op = "none"
    /\ LET sig == EntrySignals(df, df.gaps)
       IN  /\ AnalyzeInputs("ok", sig, resp)
           /\ AnalyzeSymbol("ok", sig, FvgCandleOf(df), resp)

NextEntry == \E resp \in WholeResponses \cup {<<>>} : AnalyzeFrame(resp)

NextDirect == \E resp \in WholeResponses \cup {<<>>} : CheckFrame(resp)

SpecEntry == InitEntry /\ [][NextEntry]_vars

\* candle series whose first candle may have its high below its low, which no
\* line of analyze_and_trade excludes: the third candle then lies above the
\* high and below the low of the first, a gap in both directions
CrossedSeries ==
    {<<a, b, Candle(10, 11, 9, 10), d>> :
        a \in {Candle(10, 5, 14, 10), Candle(10, 11, 9, 10)},
        b \in CandleShapes,
        d \in {Candle(10, 12, 8, 10), Candle(10, 11, 9, 10)}}

\* frames on these series with an order block of either direction at the edge
\* of the gap, or none
CrossedFrames ==
    UNION {[stage : {"frame"}, candles : {c},
            vwap : {WarmColumn(4, 0, v) : v \in MaLevels},
            ema200 : {WarmColumn(4, 0, v) : v \in MaLevels},
            atr : {[j \in 1..4 |-> 2]},
            bullish_ob : {<<NaN, NaN, NaN, NaN>>, <<NaN, 5, NaN, NaN>>},
            bearish_ob : {<<NaN, NaN, NaN, NaN>>, <<NaN, 14, NaN, NaN>>},
            gaps : {<<>>}] : c \in CrossedSeries}

InitCrossed ==
    /\ Machine(<<"NFO:ALPHA">>)
    /\ clock = NoClock
    /\ df \in CrossedFrames

SpecCrossed == InitCrossed /\ [][NextEntry]_vars

SpecDirect == InitDirect /\ [][NextDirect]_vars

\* -------------------------------------------------------------------------
\* get_swing_points: scipy.signal.find_peaks on the highs and on the negated
\* lows (rows are numbered from 1)
\* -------------------------------------------------------------------------

\* the literal 0.5 of the prominence (lines 159-160), in tenths
ProminenceTenths == 5

\* the longest candle series searched for swing points
MaxSwingLen == 5

\* the candles the series are built from: a down candle, two up candles at
\* rising levels and a down candle that ranges beyond all of them
SwingShapes ==
    {Candle(4, 5, 3, 3), Candle(4, 6, 4, 5), Candle(6, 8, 6, 7), Candle(7, 9, 1, 2)}

\* the frame of test_swing_points: it has no Open column
TestSwingSeries ==
    LET High == <<100, 105, 110, 105, 100, 98, 96, 95, 94, 93>>
        Low == <<90, 95, 100, 95, 90, 85, 80, 82, 81, 83>>
        Close == <<95, 100, 105, 100, 95, 90, 82, 84, 83, 85>>
    IN  [i \in 1..10 |-> [High |-> High[i], Low |-> Low[i], Close |-> Close[i]]]

\* the High column, and the Low column negated as line 160 passes it
Highs(c) == [i \in 1..Len(c) |-> c[i].High]

NegLows(c) == [i \in 1..Len(c) |-> -c[i].Low]

\* the flat tops of x: first and last row of a run of equal values that is
\* higher than the row before it and the row after it; a run that touches the
\* first or the last row of the series is no top
Plateaus(x) ==
    {p \in (2..(Len(x) - 1)) \X (2..(Len(x) - 1)) :
        /\ p[1] <= p[2]
        /\ x[p[1] - 1] < x[p[1]]
        /\ x[p[2] + 1] < x[p[1]]
        /\ \A j \in p[1]..p[2] : x[j] = x[p[1]]}

\* the local maxima find_peaks starts from: the middle of each flat top,
\* rounded down
LocalMaxima(x) == {(p[1] + p[2]) \div 2 : p \in Plateaus(x)}

\* TooClose with a peak crowding out nothing but itself
TooClose_Self(p, q, distance) == p = q

\* `distance=lookback`: a peak removes the peaks less than `distance` rows away
TooClose(p, q, distance) == Abs(p - q) < distance

RECURSIVE SelectByPeakDistance(_, _, _, _, _)
\* the peaks that survive `distance`: the highest peak left is kept and removes
\* the peaks too close to it. The order of two peaks of equal height is that of
\* an argsort that is not stable: `ties` says whether the later or the earlier
\* one comes first
SelectByPeakDistance(x, remaining, kept, distance, ties) ==
    IF remaining = {} THEN kept
    ELSE LET best == CHOOSE p \in remaining :
                        \A q \in remaining :
                           \/ x[q] < x[p]
                           \/ x[q] = x[p] /\ (IF ties = "later" THEN q <= p ELSE q >= p)
         IN  SelectByPeakDistance(x,
                                  {q \in remaining : ~TooClose(best, q, distance)},
                                  kept \cup {best}, distance, ties)

\* the lowest value between peak p and the nearest higher row on the side
\* `dir` (-1: left, 1: right), or the end of the series
BaseMin(x, p, dir) ==
    LET run == {i \in 1..Len(x) :
                  /\ (i - p) * dir >= 0
                  /\ \A j \in 1..Len(x) :
                        ((j - p) * dir >= 0 /\ (i - j) * dir >= 0) => x[j] <= x[p]}
    IN  CHOOSE v \in {x[i] : i \in run} : \A i \in run : v <= x[i]

\* the prominence of peak p: its height above the higher of its two bases
Prominence(x, p) ==
    LET l == BaseMin(x, p, -1)
        r == BaseMin(x, p, 1)
    IN  x[p] - (IF l > r THEN l ELSE r)

\* find_peaks(x, distance=lookback, prominence=df['atr'].mean() * 0.5)
FindPeaks(x, distance, atr, ties) ==
    {p \in SelectByPeakDistance(x, LocalMaxima(x), {}, distance, ties) :
        /\ ColumnCount(atr) > 0
        /\ 10 * ColumnCount(atr) * Prominence(x, p)
              >= ProminenceTenths * ColumnSum(atr, Len(atr))}

\* get_swing_points: the columns swing_high and swing_low
GetSwingPoints(f) ==
    [swing_high |-> [i \in 1..Len(f.candles) |->
                       i \in FindPeaks(Highs(f.candles), f.lookback, f.atr, f.ties)],
     swing_low  |-> [i \in 1..Len(f.candles) |->
                       i \in FindPeaks(NegLows(f.candles), f.lookback, f.atr, f.ties)]]

\* two local maxima of equal height less than `distance` rows apart
HasTie(x, distance) ==
    \E p \in LocalMaxima(x), q \in LocalMaxima(x) :
       p < q /\ q - p < distance /\ x[p] = x[q]

\* the frames handed to get_swing_points: every series of up to MaxSwingLen
\* candles with swing_lookback 2 or 3 and a flat ATR of 1 or 4, and the frame of
\* test_swing_points with swing_lookback 5. The order of equal peaks is drawn
\* where the frame has such peaks.
SwingFrames ==
    {f \in [stage : {"candles"},
            candles : UNION {[1..n -> SwingShapes] : n \in 0..MaxSwingLen},
            atr : {1, 4}, lookback : {2, 3}, ties : {"later", "earlier"}]
           \cup [stage : {"candles"}, candles : {TestSwingSeries},
                 atr : {1}, lookback : {5}, ties : {"later"}] :
        f.ties = "earlier" =>
           \/ HasTie(Highs(f.candles), f.lookback)
           \/ HasTie(NegLows(f.candles), f.lookback)}

InitSwings ==
    /\ Machine(<<>>)
    /\ clock = NoClock
    /\ \E f \in SwingFrames :
          df = [stage |-> "candles", candles |-> f.candles,
                atr |-> [i \in 1..Len(f.candles) |-> f.atr],
                lookback |-> f.lookback, ties |-> f.ties,
                swing_high |-> <<>>, swing_low |-> <<>>]

FindSwings ==
    /\ df.stage = "candles"
    /\ df' = [df EXCEPT !.stage = "swings",
                        !.swing_high = GetSwingPoints(df).swing_high,
                        !.swing_low = GetSwingPoints(df).swing_low]
    /\ UNCHANGED <<symbols, positions, posKeys, trail, orders, cancelReq, baskets,
                   pc, idx, adjustments, last, clock,
                   tracker, portfolio, engine>>

NextSwings == FindSwings

SpecSwings == InitSwings /\ [][NextSwings]_vars

\* -------------------------------------------------------------------------
\* find_smc_patterns: swing points, order blocks and fair value gaps on a frame
\* -------------------------------------------------------------------------

\* the order of the price columns of a frame, which is the order of the keys
\* of the candles the broker returns
ColumnOrders ==
    {<<"Open", "High", "Low", "Close", "Volume">>,
     <<"High", "Low", "Open", "Close", "Volume">>}

\* `df.loc[idx].shift(1)[name]` (lines 176-177, 182-183): the row of candle idx
\* is shifted along its columns, so the cell read is that of the column to the
\* left of `name` in the same row, and NaN for the first column
ShiftedCell(candle, columns, name) ==
    LET k == CHOOSE j \in 1..Len(columns) : columns[j] = name
    IN  IF k = 1 THEN NaN
        ELSE LET left == columns[k - 1]
             IN  IF left = "Open" THEN candle.Open
                 ELSE IF left = "High" THEN candle.High
                 ELSE IF left = "Low" THEN candle.Low
                 ELSE candle.Close

\* SwingsSeen with the swing columns the frame had before get_swing_points,
\* none being flagged in a frame that has no such columns yet
SwingsSeen_Stale(old, new) ==
    IF old.swing_high = <<>>
    THEN [swing_high |-> [i \in 1..Len(new.swing_high) |-> FALSE],
          swing_low |-> [i \in 1..Len(new.swing_low) |-> FALSE]]
    ELSE [swing_high |-> old.swing_high, swing_low |-> old.swing_low]

\* lines 151-152: get_order_blocks runs after get_swing_points and reads the
\* columns it has just written
SwingsSeen(old, new) == new

\* get_order_blocks: sw are the swing columns, c the candles
GetOrderBlocks(c, columns, sw) ==
    [bullish_ob |->
        [i \in 1..Len(c) |->
           IF sw.swing_high[i] /\ i - 1 >= 1 /\ c[i - 1].Close < c[i - 1].Open
           THEN ShiftedCell(c[i], columns, "High") ELSE NaN],
     bearish_ob |->
        [i \in 1..Len(c) |->
           IF sw.swing_low[i] /\ i - 1 >= 1 /\ c[i - 1].Close > c[i - 1].Open
           THEN ShiftedCell(c[i], columns, "Low") ELSE NaN]]

\* find_smc_patterns on frame f: the frame with its pattern columns
FindSmcPatterns(f) ==
    LET sw == GetSwingPoints(f)
        ob == GetOrderBlocks(f.candles, f.columns, SwingsSeen(f, sw))
    IN  [f EXCEPT !.swing_high = sw.swing_high,
                  !.swing_low = sw.swing_low,
                  !.bullish_ob = ob.bullish_ob,
                  !.bearish_ob = ob.bearish_ob,
                  !.gaps = GetFairValueGaps(f.candles)]

\* the pattern columns of a frame
PatternsOf(f) ==
    [swing_high |-> f.swing_high, swing_low |-> f.swing_low,
     bullish_ob |-> f.bullish_ob, bearish_ob |-> f.bearish_ob, gaps |-> f.gaps]

\* a frame as analyze_and_trade hands it to find_smc_patterns: swing_lookback
\* 2, a flat ATR of 1
InitPatterns ==
    /\ Machine(<<>>)
    /\ clock = NoClock
    /\ \E c \in SeriesSet, o \in ColumnOrders :
          df = [stage |-> "candles", candles |-> c, columns |-> o,
                atr |-> [i \in 1..Len(c) |-> 1], lookback |-> 2, ties |-> "later",
                swing_high |-> <<>>, swing_low |-> <<>>, bullish_ob |-> <<>>,
                bearish_ob |-> <<>>, gaps |-> <<>>, first |-> <<>>]

\* find_smc_patterns on the frame
FindPatterns ==
    /\ df.stage = "candles"
    /\ df' = [FindSmcPatterns(df) EXCEPT !.stage = "patterns",
                                          !.first = PatternsOf(FindSmcPatterns(df))]
    /\ UNCHANGED <<symbols, positions, posKeys, trail, orders, cancelReq, baskets,
                   pc, idx, adjustments, last, clock,
                   tracker, portfolio, engine>>

\* find_smc_patterns once more on the frame it has left
FindPatternsAgain ==
    /\ df.stage = "patterns"
    /\ df' = [FindSmcPatterns(df) EXCEPT !.stage = "again"]
    /\ UNCHANGED <<symbols, positions, posKeys, trail, orders, cancelReq, baskets,
                   pc, idx, adjustments, last, clock,
                   tracker, portfolio, engine>>

NextPatterns == FindPatterns \/ FindPatternsAgain

SpecPatterns == InitPatterns /\ [][NextPatterns]_vars

\* -------------------------------------------------------------------------
\* run() that keeps cycling: no poll, cancel or quote raises, every basket is
\* taken or refused as a whole, and every order the broker holds becomes final
\* -------------------------------------------------------------------------

AnalyzeLive == Analyze(WholeResponses, FALSE)

ManageLive ==
    \E unk \in OrderStatuses, ltp \in Prices :
       ManageInputs(FALSE, FALSE, FALSE, 0, unk, ltp)
          /\ ManagePosition(FALSE, FALSE, FALSE, 0, unk, ltp)

DisplayLive == DisplayTable(FALSE)

\* the steps of one cycle of run(): analysis, reconciliation, table
Cycle == AnalyzeLive \/ ManageLive \/ DisplayLive

NextLive == Cycle \/ Broker

\* the loop of run() never stops (line 93) and no order stays PENDING for ever
SpecLive == Init /\ [][NextLive]_vars /\ WF_vars(Cycle) /\ WF_vars(Broker)

\* -------------------------------------------------------------------------
\* OITrackerStrategy.get_oi_data: the per-symbol cache of OI records
\* Time is counted in hours.
\* -------------------------------------------------------------------------

\* the hours the tracker is observed for
MaxNow == 4

\* `timedelta(hours=3)` (line 165): the window the cache is trimmed to
WindowHours == 3

\* the strikes get_oi_data is called with
OiStrikes == <<"ATM", "OTM">>

\* an OI record; only its time stamp is read by the cache
OiRecord(ts) == [ts |-> ts]

\* what get_history may return at time now: nothing, the record of the hour,
\* or that of the hour before and that of the hour
OiHistories(now) ==
    {<<>>, <<OiRecord(now)>>}
       \cup (IF now >= 1 THEN {<<OiRecord(now - 1), OiRecord(now)>>} ELSE {})

\* _generate_synthetic_oi (lines 75-81): records of the last three hours, the
\* latest one before now
Synthetic(now) == <<OiRecord(now - 3), OiRecord(now - 2), OiRecord(now - 1)>>

\* the list comprehension of line 166
Trimmed(history, now) == SelectSeq(history, LAMBDA r : r.ts >= now - WindowHours)

\* the body of the loop of get_oi_data (lines 128-174) for one strike, as far
\* as the cache goes: st is the cache and whether the call has raised, symbol
\* what get_option_symbol returned ("None": no symbol found), fetched what
\* get_history returned
OiIteration(st, symbol, fetched, now, use_synthetic) ==
    IF st.raised \/ symbol = "None" THEN st
    ELSE IF symbol \notin DOMAIN st.historical_oi
    THEN IF fetched # <<>>
         THEN [st EXCEPT !.historical_oi = Put(@, symbol, fetched)]
         ELSE IF use_synthetic
         THEN [st EXCEPT !.historical_oi = Put(@, symbol, Synthetic(now))]
         ELSE st
    ELSE LET cached == st.historical_oi[symbol]
         IN  \* line 159: `self.historical_oi[symbol][-1]` of an empty list
             IF fetched # <<>> /\ cached = <<>>
             THEN [st EXCEPT !.raised = TRUE]
             ELSE LET last_known_ts == cached[Len(cached)].ts
                      appended ==
                         IF fetched = <<>> THEN cached
                         ELSE cached \o SelectSeq(fetched,
                                                  LAMBDA r : r.ts > last_known_ts)
                  IN  [st EXCEPT !.historical_oi =
                                    Put(@, symbol, Trimmed(appended, now))]

\* the symbol of a strike and option type in the instruments table
OiSymbol(strike, option_type) == <<strike, option_type>>

\* get_oi_data(strikes, option_type): found says for which strikes
\* get_option_symbol finds a symbol, fetched what get_history returns for each
GetOiDataOn(st, option_type, found, fetched, now, use_synthetic) ==
    LET sym(i) == IF found[i] THEN OiSymbol(OiStrikes[i], option_type) ELSE "None"
        st1 == OiIteration(st, sym(1), fetched[1], now, use_synthetic)
    IN  OiIteration(st1, sym(2), fetched[2], now, use_synthetic)

\* _initialize_state (lines 54-57) of a tracker started at hour 0
InitOi ==
    /\ Strategy(<<>>)
    /\ clock = NoClock
    /\ df = NoFrame
    /\ portfolio = NoPortfolio
    /\ engine = NoEngine
    /\ \E syn \in BOOLEAN :
          tracker = [stage |-> "cache", now |-> 0, use_synthetic_oi |-> syn,
                     historical_oi |-> <<>>, raised |-> FALSE]

\* an hour passes
OiTick ==
    /\ tracker.stage = "cache"
    /\ tracker.now < MaxNow
    /\ tracker' = [tracker EXCEPT !.now = @ + 1, !.raised = FALSE]
    /\ UNCHANGED <<symbols, positions, posKeys, trail, orders, cancelReq, baskets,
                   pc, idx, adjustments, last, clock, df, portfolio, engine>>

\* one call of get_oi_data for the call options
GetOiData ==
    /\ tracker.stage = "cache"
    /\ \E found \in [1..2 -> BOOLEAN],
          fetched \in [1..2 -> OiHistories(tracker.now)] :
          /\ \A i \in 1..2 : ~found[i] => fetched[i] = <<>>
          /\ LET st == GetOiDataOn([historical_oi |-> tracker.historical_oi,
                                    raised |-> FALSE],
                                   "CE", found, fetched, tracker.now,
                                   tracker.use_synthetic_oi)
             IN  tracker' = [tracker EXCEPT !.historical_oi = st.historical_oi,
                                            !.raised = st.raised]
    /\ UNCHANGED <<symbols, positions, posKeys, trail, orders, cancelReq, baskets,
                   pc, idx, adjustments, last, clock, df, portfolio, engine>>

NextOi == OiTick \/ GetOiData

SpecOi == InitOi /\ [][NextOi]_vars

\* -------------------------------------------------------------------------
\* OITrackerStrategy.on_ticks_update: one order per strike and option type
\* Time is a date and a minute of that date.
\* -------------------------------------------------------------------------

\* the dates and the minutes of a date the tracker is observed for
MaxDate == 1

MaxMinute == 2

\* the (strike, option type) pairs in the order update_tables visits them:
\* every strike of the call table, then every strike of the put table
TradeKeys ==
    <<<<"ATM", "CE">>, <<"OTM", "CE">>, <<"ATM", "PE">>, <<"OTM", "PE">>>>

\* what a visit of update_tables to a strike finds: no OI change above the
\* threshold ("quiet"), a change above it with no symbol for the strike
\* ("nosymbol"), with a symbol and an order sent ("order"), or with the
\* OrderRequest of _place_order raising before anything is sent ("raised")
TradeOutcomes == {"quiet", "nosymbol", "order", "raised"}

\* AlreadyTraded without the test of the set
AlreadyTraded_Never(active_trades, trade_key) == FALSE

\* `trade_key in self.active_trades` (line 286)
AlreadyTraded(active_trades, trade_key) == trade_key \in active_trades

\* _check_and_place_trade for one key: st holds the set of active trades, the
\* keys an order was sent for and whether the update has raised
CheckAndPlaceTrade(st, enabled, trade_key, outcome) ==
    IF st.raised \/ ~enabled THEN st
    ELSE IF AlreadyTraded(st.active_trades, trade_key) THEN st
    ELSE IF outcome \in {"quiet", "nosymbol"} THEN st
    ELSE IF outcome = "raised" THEN [st EXCEPT !.raised = TRUE]
    ELSE [st EXCEPT !.sent = Append(@, trade_key),
                    !.active_trades = @ \cup {trade_key}]

RECURSIVE UpdateTables(_, _, _, _)
\* update_tables, as far as trades go: the keys from position i on
UpdateTables(st, enabled, outcomes, i) ==
    IF i > Len(TradeKeys) THEN st
    ELSE UpdateTables(CheckAndPlaceTrade(st, enabled, TradeKeys[i], outcomes[i]),
                      enabled, outcomes, i + 1)

\* no time read yet: the None of last_run_date and last_update_time
NoTime == [date |-> -1, minute |-> -1]

\* `(now - self.last_update_time).total_seconds() >= 60` (line 89)
MinuteElapsed(now, last_update_time) ==
    \/ last_update_time = NoTime
    \/ now.date > last_update_time.date
    \/ now.date = last_update_time.date /\ now.minute - last_update_time.minute >= 1

InitTrades ==
    /\ Strategy(<<>>)
    /\ clock = NoClock
    /\ df = NoFrame
    /\ portfolio = NoPortfolio
    /\ engine = NoEngine
    /\ \E enabled \in BOOLEAN :
          tracker = [stage |-> "trades", enabled |-> enabled,
                     now |-> [date |-> 0, minute |-> 0],
                     active_trades |-> {}, last_run_date |-> -1,
                     last_update_time |-> NoTime,
                     sent |-> <<>>, crossed |-> {}, reset |-> FALSE,
                     raised |-> FALSE]

\* time passes: the next minute of the date, or the first minute of the next
TradesTick ==
    /\ tracker.stage = "trades"
    /\ \/ /\ tracker.now.minute < MaxMinute
          /\ tracker' = [tracker EXCEPT !.now.minute = @ + 1]
       \/ /\ tracker.now.date < MaxDate
          /\ tracker' = [tracker EXCEPT !.now = [date |-> @.date + 1, minute |-> 0]]
    /\ UNCHANGED <<symbols, positions, posKeys, trail, orders, cancelReq, baskets,
                   pc, idx, adjustments, last, clock, df, portfolio, engine>>

\* on_ticks_update (lines 88-97)
OnTicksUpdate ==
    /\ tracker.stage = "trades"
    /\ \E outcomes \in [1..Len(TradeKeys) -> TradeOutcomes] :
          LET now == tracker.now
              due == MinuteElapsed(now, tracker.last_update_time)
              new_day == due /\ tracker.last_run_date # now.date
              st == UpdateTables([active_trades |-> IF new_day THEN {}
                                                   ELSE tracker.active_trades,
                                  sent |-> <<>>, raised |-> FALSE],
                                 tracker.enabled, outcomes, 1)
          IN  /\ ~due => outcomes = [i \in 1..Len(TradeKeys) |-> "quiet"]
              /\ tracker' =
                    IF ~due
                    THEN [tracker EXCEPT !.sent = <<>>, !.crossed = {},
                                         !.reset = FALSE, !.raised = FALSE]
                    ELSE [tracker EXCEPT
                            !.active_trades = st.active_trades,
                            !.last_run_date = now.date,
                            !.last_update_time = IF st.raised THEN @ ELSE now,
                            !.sent = st.sent,
                            !.crossed = {TradeKeys[i] : i \in
                                           {j \in 1..Len(TradeKeys) :
                                              outcomes[j] = "order"}},
                            !.reset = new_day,
                            !.raised = st.raised]
    /\ UNCHANGED <<symbols, positions, posKeys, trail, orders, cancelReq, baskets,
                   pc, idx, adjustments, last, clock, df, portfolio, engine>>

NextTrades == TradesTick \/ OnTicksUpdate

SpecTrades == InitTrades /\ [][NextTrades]_vars

\* -------------------------------------------------------------------------
\* Portfolio.record_trade: the ledger of a backtest
\* -------------------------------------------------------------------------

\* the trades the ledger is observed for
MaxTrades == 3

\* the stocks traded
Stocks == {"RELIANCE", "TCS"}

\* the sides record_trade is called with: upper and lower case, and a side that
\* is neither BUY nor SELL
Sides == {"BUY", "sell", "HOLD"}

\* `side.upper()`
Upper(side) == IF side = "sell" THEN "SELL" ELSE side

\* Affordable without the test of the cash
Affordable_Always(cash, cost) == TRUE

\* `if self.cash < cost: return` (line 28)
Affordable(cash, cost) == ~(cash < cost)

\* `self.holdings.get(symbol, 0)`
Held(holdings, symbol) == IF symbol \in DOMAIN holdings THEN holdings[symbol] ELSE 0

\* `del self.holdings[symbol]`
Without(holdings, symbol) == [s \in (DOMAIN holdings) \ {symbol} |-> holdings[s]]

\* record_trade on the ledger p (cash, holdings, trades)
RecordTradeOn(p, symbol, quantity, price, side) ==
    LET record == [symbol |-> symbol, quantity |-> quantity, price |-> price,
                   side |-> Upper(side)]
    IN  IF Upper(side) = "BUY"
        THEN IF ~Affordable(p.cash, quantity * price) THEN p
             ELSE [p EXCEPT !.cash = @ - quantity * price,
                            !.holdings = Put(@, symbol, Held(@, symbol) + quantity),
                            !.trades = Append(@, record)]
        ELSE IF Upper(side) = "SELL"
        THEN IF Held(p.holdings, symbol) < quantity THEN p
             ELSE [p EXCEPT !.cash = @ + quantity * price,
                            !.holdings =
                               IF Held(@, symbol) - quantity = 0
                               THEN Without(@, symbol)
                               ELSE Put(@, symbol, Held(@, symbol) - quantity),
                            !.trades = Append(@, record)]
        \* line 42: ValueError
        ELSE [p EXCEPT !.raised = TRUE]

\* no call made yet
NoCall == [symbol |-> "none", quantity |-> 0, price |-> 0, side |-> "none"]

\* Portfolio.__init__ with nothing, or a little, as initial cash
InitLedger ==
    /\ Strategy(<<>>)
    /\ clock = NoClock
    /\ df = NoFrame
    /\ tracker = NoTracker
    /\ engine = NoEngine
    /\ \E initial_cash \in {0, 3, 4} :
          portfolio = [stage |-> "ledger", cash |-> initial_cash,
                       holdings |-> <<>>, trades |-> <<>>, raised |-> FALSE,
                       call |-> NoCall]

RecordTrade ==
    /\ portfolio.stage = "ledger"
    /\ Len(portfolio.trades) < MaxTrades
    /\ \E symbol \in Stocks, quantity \in 1..2, price \in {0, 3}, side \in Sides :
          portfolio' =
             [RecordTradeOn([portfolio EXCEPT !.raised = FALSE],
                            symbol, quantity, price, side)
                EXCEPT !.call = [symbol |-> symbol, quantity |-> quantity,
                                 price |-> price, side |-> side]]
    /\ UNCHANGED <<symbols, positions, posKeys, trail, orders, cancelReq, baskets,
                   pc, idx, adjustments, last, clock, df, tracker, engine>>

NextLedger == RecordTrade

SpecLedger == InitLedger /\ [][NextLedger]_vars

\* -------------------------------------------------------------------------
\* DecisionEngine.run and the execute_trade of the two execution managers
\* -------------------------------------------------------------------------

\* what the analyzers report: the PEAD verdict ("None": no such key), the
\* governance risk level ("None": no such key), the technical and the
\* fundamental bias
PeadVerdicts == {"PASS", "FAIL", "None"}

RiskLevels == {"Low", "Medium", "HIGH", "None"}

TechnicalBiases == {"Bullish", "bullish", "Neutral", "Bearish"}

FundamentalBiases == {"Strong", "Average"}

\* the verdicts execute_trade may be called with
Verdicts == {"STRONG BUY", "BUY", "SELL", "HOLD", "REJECT"}

\* `.lower()` on the strings above; a missing key reads as ""
Lower(s) ==
    IF s = "Low" THEN "low"
    ELSE IF s = "Medium" THEN "medium"
    ELSE IF s = "HIGH" THEN "high"
    ELSE IF s = "Bullish" THEN "bullish"
    ELSE IF s = "Neutral" THEN "neutral"
    ELSE IF s = "Bearish" THEN "bearish"
    ELSE IF s = "Strong" THEN "strong"
    ELSE IF s = "Average" THEN "average"
    ELSE IF s = "None" THEN ""
    ELSE s

\* GovernanceRejects for a high risk only
GovernanceRejects_HighOnly(risk_level) == Lower(risk_level) = "high"

\* `gov_results.get("Risk Level", "").lower() in ["medium", "high"]` (line 73)
GovernanceRejects(risk_level) == Lower(risk_level) \in {"medium", "high"}

\* lines 48-97 of run: the verdict, the confidence and the analyzers run
Decide(pead, risk_level, technical, fundamental) ==
    IF pead # "PASS"
    THEN [verdict |-> "REJECT", confidence |-> 0, ran |-> {"pead"}]
    ELSE
      LET all == {"pead", "technical", "fundamental", "news", "governance", "flow"}
          rejected == GovernanceRejects(risk_level)
          is_pead_strong == pead = "PASS"
          is_tech_bullish == Lower(technical) = "bullish"
          is_fund_strong == Lower(fundamental) = "strong"
      IN  IF rejected THEN [verdict |-> "REJECT", confidence |-> 0, ran |-> all]
          ELSE IF is_pead_strong /\ is_tech_bullish /\ is_fund_strong
          THEN [verdict |-> "STRONG BUY", confidence |-> 90, ran |-> all]
          ELSE IF is_pead_strong /\ is_tech_bullish
          THEN [verdict |-> "BUY", confidence |-> 75, ran |-> all]
          ELSE IF is_pead_strong /\ ~is_tech_bullish
          THEN [verdict |-> "HOLD", confidence |-> 60, ran |-> all]
          ELSE [verdict |-> "HOLD", confidence |-> 50, ran |-> all]

\* `final_verdict not in ["STRONG BUY", "BUY", "SELL"]` (line 33 of
\* execution.py, line 53 of backtesting/execution.py)
NoAction(final_verdict) == final_verdict \notin {"STRONG BUY", "BUY", "SELL"}

\* the side of the order of a verdict
SideOf(final_verdict) ==
    IF final_verdict \in {"STRONG BUY", "BUY"} THEN "BUY" ELSE "SELL"

\* ExecutionManager.execute_trade: the side of the order handed to
\* place_order, "none" when no order is built. credentials: FYERS_CLIENT_ID is
\* in the environment
ExecuteLive(final_verdict, credentials) ==
    IF NoAction(final_verdict) THEN "none"
    ELSE IF ~credentials THEN "none"
    ELSE SideOf(final_verdict)

\* the price get_price_for_date gives and the quantity of the configuration,
\* in units of the ledger
BacktestPrice == 1

OrderQuantity == 1

\* BacktestExecutionManager.execute_trade on the ledger p
ExecuteBacktest(p, final_verdict, stock) ==
    IF NoAction(final_verdict) THEN p
    ELSE RecordTradeOn(p, stock, OrderQuantity, BacktestPrice, SideOf(final_verdict))

\* no call observed
NoRun ==
    [stage |-> "engine", call |-> "none", pead |-> "None", risk_level |-> "None",
     technical |-> "Neutral", fundamental |-> "Average", verdict |-> "none",
     confidence |-> 0, ran |-> {}, handed |-> "none", placed |-> "none",
     raised |-> FALSE]

\* an engine with the live or the backtest execution manager
InitEngine ==
    /\ Strategy(<<>>)
    /\ clock = NoClock
    /\ df = NoFrame
    /\ tracker = NoTracker
    /\ engine = NoRun
    /\ \/ portfolio = NoPortfolio
       \/ portfolio = [stage |-> "ledger", cash |-> 2, holdings |-> <<>>,
                       trades |-> <<>>, raised |-> FALSE, call |-> NoCall]

\* DecisionEngine.run(stock_symbol). With the backtest manager the call of
\* line 115 lacks the trade_date that execute_trade requires and raises
\* TypeError before anything is recorded.
Run ==
    /\ engine.stage = "engine"
    /\ \E pead \in PeadVerdicts, risk_level \in RiskLevels,
          technical \in TechnicalBiases, fundamental \in FundamentalBiases,
          credentials \in BOOLEAN :
          LET d == Decide(pead, risk_level, technical, fundamental)
              live == portfolio = NoPortfolio
          IN  /\ pead # "PASS" =>
                    /\ risk_level = "None"
                    /\ technical = "Neutral"
                    /\ fundamental = "Average"
              /\ (~live \/ NoAction(d.verdict)) => credentials
              /\ engine' = [NoRun EXCEPT
                              !.call = "run", !.pead = pead,
                              !.risk_level = risk_level, !.technical = technical,
                              !.fundamental = fundamental,
                              !.verdict = d.verdict, !.confidence = d.confidence,
                              !.ran = d.ran, !.handed = d.verdict,
                              !.placed = IF live
                                         THEN ExecuteLive(d.verdict, credentials)
                                         ELSE "none",
                              !.raised = ~live]
    /\ UNCHANGED <<symbols, positions, posKeys, trail, orders, cancelReq, baskets,
                   pc, idx, adjustments, last, clock, df, tracker, portfolio>>

\* execute_trade called with a decision of any verdict (and a trade date)
ExecuteTrade ==
    /\ engine.stage = "engine"
    /\ \E final_verdict \in Verdicts, credentials \in BOOLEAN :
          LET live == portfolio = NoPortfolio
              p == IF live THEN portfolio
                   ELSE ExecuteBacktest([portfolio EXCEPT !.raised = FALSE],
                                        final_verdict, "RELIANCE")
          IN  /\ (~live \/ NoAction(final_verdict)) => credentials
              /\ ~live => Len(portfolio.trades) < MaxTrades
              /\ portfolio' =
                    IF live \/ NoAction(final_verdict) THEN p
                    ELSE [p EXCEPT !.call =
                                      [symbol |-> "RELIANCE",
                                       quantity |-> OrderQuantity,
                                       price |-> BacktestPrice,
                                       side |-> SideOf(final_verdict)]]
              /\ engine' = [NoRun EXCEPT
                              !.call = "execute_trade",
                              !.handed = final_verdict,
                              !.placed =
                                 IF live THEN ExecuteLive(final_verdict, credentials)
                                 ELSE IF NoAction(final_verdict) THEN "none"
                                 ELSE SideOf(final_verdict)]
    /\ UNCHANGED <<symbols, positions, posKeys, trail, orders, cancelReq, baskets,
                   pc, idx, adjustments, last, clock, df, tracker>>

NextEngine == Run \/ ExecuteTrade

SpecEngine == InitEngine /\ [][NextEngine]_vars

\* -------------------------------------------------------------------------
\* Properties
\* -------------------------------------------------------------------------

\* the identifiers a position record holds
IdsOf(pos) == {pos.order_id, pos.sl_order_id, pos.target_order_id}

\* the range of a sequence
Range(q) == {q[i] : i \in 1..Len(q)}

\* the step is the iteration of the analysis pass over s
AnalyzeStep(s) ==
    /\ pc = "analyze"
    /\ symbols[idx] = s
    /\ <<pc, idx>>' # <<pc, idx>>

\* price p is beyond the midpoint between entry and target, on the side of
\* the target
Favourable(pos, p) ==
    IF pos.type = "LONG" THEN 2 * p > pos.entry_price + pos.target
    ELSE 2 * p < pos.entry_price + pos.target

\* C1: while an instrument has a position that is ATTEMPTING, PENDING_ENTRY or
\* OPEN, no step sends a basket for it or makes the broker hold a new order
\* for it, whatever the candles qualify.
C1_OnePositionPerInstrument ==
    [][\A s \in SymbolSet :
          StatusOf(s) \in NonTerminal =>
             /\ baskets'[s] = baskets[s]
             /\ \A id \in OrderIds :
                   id[1] = s /\ orders[id] = "NONE" => orders'[id] = "NONE"]_vars

\* C1 witness: the analysis pass has come to an instrument whose candles
\* qualify a signal while its position is pending or open, and its one basket
\* is still the only one.
C1_Witness ==
    /\ last.op = "analyze"
    /\ last.qual
    /\ last.before \in {"PENDING_ENTRY", "OPEN"}
    /\ baskets[last.sym] = 1

\* C2: when the analysis pass comes to an instrument whose position is
\* CLOSED_SL, CLOSED_TARGET or FAILED and whose candles qualify a signal, it
\* sends a new basket and the instrument has a fresh position.
C2_TerminalFreesInstrument ==
    [][\A s \in SymbolSet :
          (AnalyzeStep(s) /\ StatusOf(s) \in Terminal /\ last'.qual) =>
             /\ baskets'[s] = baskets[s] + 1
             /\ positions'[s].status \in {"PENDING_ENTRY", "FAILED"}]_vars

\* the status changes the lifecycle allows
AllowedChanges ==
    {<<"ATTEMPTING", "PENDING_ENTRY">>, <<"ATTEMPTING", "FAILED">>,
     <<"PENDING_ENTRY", "OPEN">>, <<"PENDING_ENTRY", "FAILED">>,
     <<"OPEN", "CLOSED_SL">>, <<"OPEN", "CLOSED_TARGET">>}

\* C3: the statuses assigned to a position, in order, start with ATTEMPTING,
\* end with the status the position has, and every change from one to the next
\* is one of ATTEMPTING -> PENDING_ENTRY, ATTEMPTING -> FAILED,
\* PENDING_ENTRY -> OPEN, PENDING_ENTRY -> FAILED, OPEN -> CLOSED_SL,
\* OPEN -> CLOSED_TARGET; so nothing follows a terminal status.
C3_Lifecycle ==
    \A s \in SymbolSet :
       /\ s \in DOMAIN positions <=> trail[s] # <<>>
       /\ trail[s] # <<>> =>
             /\ trail[s][1] = "ATTEMPTING"
             /\ trail[s][Len(trail[s])] = positions[s].status
       /\ \A i \in 1..(Len(trail[s]) - 1) :
             <<trail[s][i], trail[s][i + 1]>> \in AllowedChanges

\* C3 witness: a position has gone all the way to CLOSED_TARGET and has been
\* reconciled once more after that.
C3_Witness ==
    /\ last.op = "manage"
    /\ last.before = "CLOSED_TARGET"
    /\ trail[last.sym] = <<"ATTEMPTING", "PENDING_ENTRY", "OPEN", "CLOSED_TARGET">>

C5_AllThreeIdentifiers ==
    \A s \in DOMAIN positions :
       positions[s].status \in {"PENDING_ENTRY", "OPEN"} =>
          \A id \in IdsOf(positions[s]) : id \in OrderIds /\ orders[id] # "NONE"

\* C6: after the pass over a position that was PENDING_ENTRY: if the entry
\* order reported FILLED the position was made OPEN; if it reported REJECTED
\* or CANCELLED the position is FAILED and cancel_order was called for its stop
\* order and for its target order; if it reported PENDING the position is
\* still PENDING_ENTRY and cancel_order was not called.
C6_ReconcilePending ==
    (last.op = "manage" /\ last.before = "PENDING_ENTRY") =>
       LET pos == positions[last.sym]
       IN  /\ last.entry = "FILLED" => "OPEN" \in Range(trail[last.sym])
           /\ last.entry \in {"REJECTED", "CANCELLED"} =>
                 /\ pos.status = "FAILED"
                 /\ last.cancelCalls = <<pos.sl_order_id, pos.target_order_id>>
           /\ last.entry = "PENDING" =>
                 /\ pos.status = "PENDING_ENTRY"
                 /\ last.cancelCalls = <<>>

\* C7: after the pass over a position that was OPEN when its exit orders were
\* polled: if the stop order reported FILLED the position is CLOSED_SL and
\* cancel_order was called for the target order; if the target order reported
\* FILLED the position is CLOSED_TARGET and cancel_order was called for the
\* stop order; if both were polled and neither reported FILLED the position is
\* OPEN and cancel_order was not called.
C7_ReconcileOpen ==
    (last.op = "manage" /\ last.sl # "NOTPOLLED") =>
       LET pos == positions[last.sym]
       IN  /\ last.sl = "FILLED" =>
                 /\ pos.status = "CLOSED_SL"
                 /\ last.cancelCalls = <<pos.target_order_id>>
           /\ last.tgt = "FILLED" =>
                 /\ pos.status = "CLOSED_TARGET"
                 /\ last.cancelCalls = <<pos.sl_order_id>>
           /\ (last.sl \in OrderStatuses \ {"FILLED"}
                 /\ last.tgt \in OrderStatuses \ {"FILLED"}) =>
                 /\ pos.status = "OPEN"
                 /\ last.cancelCalls = <<>>

\* C7 witness: the target order of an open position was found filled, with
\* three distinct orders in the basket.
C7_Witness ==
    /\ last.op = "manage"
    /\ last.before = "OPEN"
    /\ last.tgt = "FILLED"
    /\ IdsOf(positions[last.sym]) \subseteq OrderIds

\* C7 witness of the stop side: the stop order of an open position was found
\* filled.
C7_WitnessStop ==
    /\ last.op = "manage"
    /\ last.before = "OPEN"
    /\ last.sl = "FILLED"
    /\ IdsOf(positions[last.sym]) \subseteq OrderIds

\* C8: after the pass over a position that is OPEN, with the price beyond the
\* midpoint between entry and target, the stop-loss of the position is its
\* entry price.
C8_BreakevenAdjustment ==
    (/\ last.op = "manage"
     /\ ~last.raised
     /\ positions[last.sym].status = "OPEN"
     /\ Favourable(positions[last.sym], last.ltp))
       => positions[last.sym].stop_loss = positions[last.sym].entry_price

\* C9: for every instrument, at most one pass has changed the stop price or
\* the exit orders of a position that stays open.
C9_BreakevenAtMostOnce == \A s \in SymbolSet : adjustments[s] <= 1

\* C9 witness: a position that was open before the pass is open after it,
\* its stop is not at the entry price, and the price is beyond the midpoint
\* between entry and target.
C9_Witness ==
    /\ last.op = "manage"
    /\ last.before = "OPEN"
    /\ positions[last.sym].status = "OPEN"
    /\ positions[last.sym].stop_loss # positions[last.sym].entry_price
    /\ Favourable(positions[last.sym], last.ltp)

\* C10: when a poll of the pass over a position raises, the status of the
\* position is what it was before the pass and the scheduler goes on with the
\* next position or with the rest of the cycle.
C10_PollFailureIsolated ==
    (last.op = "manage" /\ "RAISED" \in {last.entry, last.sl, last.tgt}) =>
       /\ positions[last.sym].status = last.before
       /\ pc # "crashed"

\* C11: whatever call of the broker raises, run() is still in its loop.
C11_SchedulerSurvives == pc # "crashed"

\* C12: when a cancel_order call of the pass over a position raises, the
\* scheduler goes on with the next position or with the rest of the cycle, and
\* the pass has called cancel_order at most once for each order.
C12_CancelFailureIsolated ==
    (/\ last.op = "manage"
     /\ last.raised
     /\ "RAISED" \notin {last.entry, last.sl, last.tgt}) =>
       /\ pc # "crashed"
       /\ \A i, j \in 1..Len(last.cancelCalls) :
             last.cancelCalls[i] = last.cancelCalls[j] => i = j

\* the analysis of an instrument that failed: no data, an exception, or a
\* basket the broker did not take whole
AnalysisFailed(ev) ==
    /\ ev.op = "analyze"
    /\ \/ ev.hist \in {"empty", "raise"}
       \/ ev.placed /\ ev.resp # <<"ok", "ok", "ok">>

\* C13: after the analysis of the first instrument has failed, the pass goes on
\* to the second instrument in the same cycle, and when that instrument
\* qualifies its basket is submitted.
C13_AnalysisFailureIsolated ==
    /\ [](AnalysisFailed(last) /\ last.sym = symbols[1] /\ Len(symbols) > 1
            => pc = "analyze" /\ idx = 2)
    /\ [][(/\ AnalysisFailed(last)
           /\ last.sym = symbols[1]
           /\ Len(symbols) > 1
           /\ AnalyzeStep(symbols[2])
           /\ last'.hist = "ok"
           /\ last'.qual)
            => /\ last'.placed
               /\ baskets'[symbols[2]] = baskets[symbols[2]] + 1]_vars

C13_Witness ==
    /\ Len(symbols) > 1
    /\ last.op = "analyze"
    /\ last.sym = symbols[2]
    /\ last.prev = "raise"
    /\ last.placed
    /\ symbols[2] \in DOMAIN positions
    /\ symbols[1] \notin DOMAIN positions

\* C14: an instrument whose fetch returns no data keeps its position record, if
\* any, has none created, and no order is sent for it.
C14_NoDataNoChange ==
    [][\A s \in SymbolSet :
          AnalyzeStep(s) /\ last'.hist = "empty"
             => /\ positions' = positions
                /\ posKeys' = posKeys
                /\ trail' = trail
                /\ orders' = orders
                /\ baskets' = baskets]_vars

C14_Witness ==
    /\ last.op = "analyze"
    /\ last.hist = "empty"
    /\ ~last.placed
    /\ last.sym \notin DOMAIN positions

\* C15: every analysis pass starts at a multiple of 15 minutes.
C15_PassOnBoundary == clock.phase = "cycle" => clock.started % Period = 0

RECURSIVE Gcd(_, _)
Gcd(a, b) == IF b = 0 THEN a ELSE Gcd(b, a % b)

\* fractions <<numerator, denominator>> with a positive denominator, reduced
FracAdd(p, q) ==
    LET n == p[1] * q[2] + q[1] * p[2]
        d == p[2] * q[2]
        g == Gcd(d, Abs(n))
    IN  <<n \div g, d \div g>>

\* the body return of candle j, as a fraction of 100 percent
BodyReturn(c, j) == <<c[j].Close - c[j].Open, c[j].Open>>

RECURSIVE AbsReturnSum(_, _)
\* the sum of the absolute body returns of the candles 1..m
AbsReturnSum(c, m) ==
    IF m = 0 THEN <<0, 1>>
    ELSE FracAdd(<<Abs(BodyReturn(c, m)[1]), BodyReturn(c, m)[2]>>,
                 AbsReturnSum(c, m - 1))

\* body return r of candle j against f times 0.8 times the mean of the absolute
\* body returns of the candles 1..j: r - f * 0.8 * mean, up to a positive factor
AgainstThreshold(c, j, f) ==
    LET r == BodyReturn(c, j)
        t == AbsReturnSum(c, j)
    IN  5 * j * r[1] * t[2] - f * 4 * t[1] * r[2]

\* C20: at every row from the third on, the bullish flag is set exactly when the
\* low is above the high two rows back and the body return of the row before
\* exceeds 0.8 times the mean absolute body return up to that row; the bearish
\* flag exactly when the high is below the low two rows back and that body
\* return is below the negated threshold; the first two rows are never flagged;
\* the test series is flagged bullish and not bearish at its fourth row.
C20_GapFlags ==
    df.stage = "gaps" =>
       LET c == df.candles
           g == df.gaps
       IN  /\ \A i \in 1..Len(c) :
                 /\ i <= 2 => ~g[i].bullish_fvg /\ ~g[i].bearish_fvg
                 /\ i >= 3 =>
                      /\ g[i].bullish_fvg <=>
                            (c[i].Low > c[i - 2].High
                               /\ AgainstThreshold(c, i - 1, 1) > 0)
                      /\ g[i].bearish_fvg <=>
                            (c[i].High < c[i - 2].Low
                               /\ AgainstThreshold(c, i - 1, -1) < 0)
           /\ c = TestSeries => g[4].bullish_fvg /\ ~g[4].bearish_fvg

C20_Witness ==
    /\ df.stage = "gaps"
    /\ df.candles = TestSeries
    /\ df.gaps[4].bullish_fvg
    /\ df.gaps[4].bullish_fvg_bottom = 102

RECURSIVE SetSum(_, _)
\* the sum of the cells of column col at the rows of set rows
SetSum(col, rows) ==
    IF rows = {} THEN 0
    ELSE LET j == CHOOSE x \in rows : TRUE
         IN  col[j] + SetSum(col, rows \ {j})

\* distance d is within the mean of the defined ATR cells times 0.5
WithinMeanAtr(f, d) ==
    LET rows == {j \in 1..Len(f.atr) : f.atr[j] # NaN}
    IN  rows # {} /\ 2 * d * Cardinality(rows) <= SetSum(f.atr, rows)

\* boundary `edge` of the gap at row k is near the latest order block that
\* column ob records at or before row k
NearLatestOrderBlock(f, ob, k, edge) ==
    \E j \in 1..k :
       /\ ob[j] # NaN
       /\ \A m \in (j + 1)..k : ob[m] = NaN
       /\ WithinMeanAtr(f, Abs(edge - ob[j]))

\* the four conditions of a long entry on the two last candles of a frame
LongConditions(f) ==
    LET n == Len(f.candles)
        k == n - 1
        g == GetFairValueGaps(f.candles)
    IN  /\ k >= 1
        /\ g[k].bullish_fvg
        /\ NearLatestOrderBlock(f, f.bullish_ob, k, g[k].bullish_fvg_bottom)
        /\ \/ f.ema200[k] # NaN /\ f.candles[k].Close > f.ema200[k]
           \/ f.vwap[k] # NaN /\ f.candles[k].Close > f.vwap[k]
        /\ f.candles[n].High > f.candles[k].High

\* the four conditions of a short entry
ShortConditions(f) ==
    LET n == Len(f.candles)
        k == n - 1
        g == GetFairValueGaps(f.candles)
    IN  /\ k >= 1
        /\ g[k].bearish_fvg
        /\ NearLatestOrderBlock(f, f.bearish_ob, k, g[k].bearish_fvg_top)
        /\ \/ f.ema200[k] # NaN /\ f.candles[k].Close < f.ema200[k]
           \/ f.vwap[k] # NaN /\ f.candles[k].Close < f.vwap[k]
        /\ f.candles[n].Low < f.candles[k].Low

\* the analysis of the frame has submitted a basket of type ptype
Submitted(ptype) ==
    /\ last.op = "analyze"
    /\ last.placed
    /\ baskets[last.sym] = 1
    /\ last.sym \in DOMAIN positions
    /\ positions[last.sym].type = ptype

\* C16: once the frame of an instrument without a position is analysed, a long
\* basket has been submitted exactly when the four long conditions hold on its
\* two last candles, and a short basket exactly when the four short conditions
\* hold.
C16_EntryExactlyOnFourConditions ==
    (df.stage = "frame" /\ last.op = "analyze") =>
       /\ Submitted("LONG") <=> LongConditions(df)
       /\ Submitted("SHORT") <=> ShortConditions(df)

\* a long entry whose frame records a far order block on the last candle,
\* after the near one the decision is taken on
C16_Witness ==
    /\ df.stage = "frame"
    /\ Submitted("LONG")
    /\ df.bullish_ob[Len(df.candles)] = 14
    /\ df.ema200[Len(df.candles) - 1] = 14

\* C17: a long position is created with the high of the FVG candle as entry,
\* its low as stop and entry + (entry - stop) * risk_reward_ratio as target; a
\* short position with the low as entry, the high as stop and
\* entry - (stop - entry) * risk_reward_ratio as target.
C17_EntryStopTarget ==
    (df.stage = "frame" /\ last.op = "analyze" /\ last.placed) =>
       LET p == positions[last.sym]
           fvg == df.candles[Len(df.candles) - 1]
       IN  /\ p.type = "LONG" =>
                /\ p.entry_price = fvg.High
                /\ p.stop_loss = fvg.Low
                /\ p.target = p.entry_price
                                 + (p.entry_price - p.stop_loss) * RiskReward
           /\ p.type = "SHORT" =>
                /\ p.entry_price = fvg.Low
                /\ p.stop_loss = fvg.High
                /\ p.target = p.entry_price
                                 - (p.stop_loss - p.entry_price) * RiskReward

C17_Witness ==
    /\ df.stage = "frame"
    /\ Submitted("SHORT")
    /\ positions[last.sym].entry_price = 6
    /\ positions[last.sym].stop_loss = 8
    /\ positions[last.sym].target = 4

\* C18: the analysis of an instrument submits at most one basket and creates
\* at most one position record, also when the long and the short evaluation
\* both pass.
C18_OneSignalPerCycle ==
    [][\A s \in SymbolSet :
          AnalyzeStep(s) =>
             /\ baskets'[s] <= baskets[s] + 1
             /\ Len(trail'[s]) > Len(trail[s]) => last'.placed
             /\ Cardinality({i \in 1..Len(trail'[s]) : trail'[s][i] = "ATTEMPTING"})
                   <= Cardinality({i \in 1..Len(trail[s]) :
                                      trail[s][i] = "ATTEMPTING"}) + 1]_vars

C18_Witness ==
    /\ df.stage = "direct"
    /\ EntrySignals(df, df.gaps) = <<TRUE, TRUE>>
    /\ last.op = "analyze"
    /\ last.placed
    /\ baskets[last.sym] = 1
    /\ positions[last.sym].type = "LONG"

\* the rows of a frame on which the trend average and the ATR are defined
DefinedRows(f) ==
    {j \in 1..Len(f.candles) : f.ema200[j] # NaN /\ f.atr[j] # NaN}

\* C19: the analysis of a frame with fewer than 3 candles that have their
\* indicator values qualifies no entry and creates no position.
C19_WarmUpSkipsEvaluation ==
    (/\ df.stage = "frame"
     /\ last.op = "analyze"
     /\ Cardinality(DefinedRows(df)) < 3)
       => /\ ~last.qual
          /\ ~last.placed
          /\ positions = <<>>

\* the rows of a frame flagged in a boolean column
Flagged(col) == {i \in 1..Len(col) : col[i]}

\* C21: every row flagged as swing high has no other flagged swing high within
\* swing_lookback rows of it, and no row within swing_lookback rows of it has
\* a higher high.
C21_SwingHighIsWindowMaximum ==
    df.stage = "swings" =>
       \A i \in Flagged(df.swing_high) :
          \A j \in 1..Len(df.candles) :
             (j # i /\ Abs(i - j) <= df.lookback) =>
                /\ ~df.swing_high[j]
                /\ df.candles[i].High >= df.candles[j].High

\* C22: on the frame of test_swing_points with swing_lookback 5 the only swing
\* high is the third row and the only swing low is the seventh row; the lesser
\* trough of the ninth row is not flagged.
C22_TestSeriesSwings ==
    (df.stage = "swings" /\ df.candles = TestSwingSeries /\ df.lookback = 5) =>
       /\ Flagged(df.swing_high) = {3}
       /\ Flagged(df.swing_low) = {7}

C22_Witness ==
    /\ df.stage = "swings"
    /\ df.candles = TestSwingSeries
    /\ df.lookback = 5
    /\ df.swing_low[7]
    /\ ~df.swing_low[9]
    /\ 9 \in LocalMaxima(NegLows(df.candles))

\* C23: a frame of fewer than 2 * swing_lookback + 1 candles has no swing high
\* and no swing low.
C23_ShortSeriesNoSwings ==
    (df.stage = "swings" /\ Len(df.candles) < 2 * df.lookback + 1) =>
       /\ Flagged(df.swing_high) = {}
       /\ Flagged(df.swing_low) = {}

\* C24: no row is flagged both as swing high and as swing low.
C24_NotBothSwings ==
    df.stage = "swings" =>
       /\ \A i \in 1..Len(df.candles) : df.candles[i].Low <= df.candles[i].High
       /\ Flagged(df.swing_high) \cap Flagged(df.swing_low) = {}

\* C26: a flagged swing high is the earliest of the rows of its flat top, and
\* no earlier peak of the same height lies less than swing_lookback rows
\* before it.
C26_TiesResolveToEarliest ==
    df.stage = "swings" =>
       \A i \in Flagged(df.swing_high) :
          /\ i > 1 => df.candles[i - 1].High # df.candles[i].High
          /\ \A j \in LocalMaxima(Highs(df.candles)) :
                (j < i /\ i - j < df.lookback)
                   => df.candles[j].High # df.candles[i].High

\* the rows before row i whose candle is a down candle (dir = -1) or an up
\* candle (dir = 1)
Before(c, i, dir) == {j \in 1..(i - 1) : (c[j].Close - c[j].Open) * dir > 0}

\* the latest row of a non-empty set of rows
Latest(rows) == CHOOSE j \in rows : \A m \in rows : m <= j

\* C25: at every swing high the bullish order block is the high of the latest
\* down candle before it, and at every swing low the bearish order block is
\* the low of the latest up candle before it; where no such candle exists no
\* block is recorded.
C25_OrderBlockAnchor ==
    df.stage = "patterns" =>
       LET c == df.candles
       IN  \A i \in 1..Len(c) :
              /\ df.swing_high[i] =>
                    df.bullish_ob[i] = (IF Before(c, i, -1) = {} THEN NaN
                                        ELSE c[Latest(Before(c, i, -1))].High)
              /\ df.swing_low[i] =>
                    df.bearish_ob[i] = (IF Before(c, i, 1) = {} THEN NaN
                                        ELSE c[Latest(Before(c, i, 1))].Low)

EntrySide(ptype) == IF ptype = "LONG" THEN "BUY" ELSE "SELL"

\* the side that closes a position
ExitSide(ptype) == IF ptype = "LONG" THEN "SELL" ELSE "BUY"

\* C28: the basket submitted for a signal has exactly three orders, entry, stop
\* and target: a STOP order on the side of the trade at the entry price, a STOP
\* order on the opposite side at the stop-loss and a LIMIT order on the
\* opposite side at the target, all three for the same symbol and exchange and
\* for the quantity lot_size.
C28_BasketLegs ==
    last.placed =>
       LET b == last.basket
           p == positions[last.sym]
       IN  /\ Len(b) = 3
           /\ b[1].order_type = "STOP"
           /\ b[1].transaction_type = EntrySide(p.type)
           /\ b[1].price = p.entry_price
           /\ b[2].order_type = "STOP"
           /\ b[2].transaction_type = ExitSide(p.type)
           /\ b[2].price = p.stop_loss
           /\ b[3].order_type = "LIMIT"
           /\ b[3].transaction_type = ExitSide(p.type)
           /\ b[3].price = p.target
           /\ \A i \in 1..3 :
                 /\ b[i].symbol = b[1].symbol
                 /\ b[i].exchange = b[1].exchange
                 /\ b[i].quantity = LotSize
           /\ last.sym \in {"NFO:ALPHA"} => b[1].exchange = "NFO" /\ b[1].symbol = "ALPHA"

C28_Witness ==
    /\ last.placed
    /\ last.resp = <<"ok", "ok", "ok">>
    /\ positions[last.sym].type = "SHORT"
    /\ last.basket[1].transaction_type = "SELL"
    /\ last.basket[3].transaction_type = "BUY"
    /\ last.basket[3].price < last.basket[1].price


\* the position record of s has changed in the step, or has appeared or gone
RecordChanged(s) ==
    \/ (s \in DOMAIN positions) # (s \in DOMAIN positions')
    \/ s \in DOMAIN positions /\ s \in DOMAIN positions' /\ positions'[s] # positions[s]

\* C29: a step that creates, fails or reconciles the position of one
\* instrument leaves the position record of every other instrument as it was,
\* and whether a basket is placed for an instrument depends on its own
\* position, history and signal only.
C29_OtherInstrumentsUntouched ==
    [][\A s \in SymbolSet :
          /\ RecordChanged(s) => last'.op \in {"analyze", "manage"} /\ last'.sym = s
          /\ AnalyzeStep(s) =>
                (last'.placed <=> (s \notin DOMAIN positions /\ last'.hist = "ok"
                                     /\ last'.qual))]_vars

C29_Witness ==
    /\ Len(symbols) = 2
    /\ last.op = "manage"
    /\ last.sym = symbols[1]
    /\ last.before = "OPEN"
    /\ positions[symbols[1]].status = "CLOSED_SL"
    /\ symbols[2] \in DOMAIN positions
    /\ positions[symbols[2]].status = "PENDING_ENTRY"
    /\ positions[symbols[2]].type # positions[symbols[1]].type


\* the orders of instrument s the broker has accepted and still holds open
LiveOrders(s) == {id \in OrderIds : id[1] = s /\ orders[id] = "PENDING"}

\* C30: while a position is FAILED, CLOSED_SL or CLOSED_TARGET no order the
\* broker accepted for it is left live: each one is filled (or otherwise
\* final) or a cancel has been issued for it.
C30_NoOrphanOrders ==
    \A s \in DOMAIN positions :
       positions[s].status \in Terminal => LiveOrders(s) \subseteq cancelReq


\* C31: when the scheduler keeps cycling and every order becomes final, every
\* position that exists eventually is FAILED, CLOSED_SL or CLOSED_TARGET.
C31_EveryPositionEnds ==
    \A s \in SymbolSet : (s \in DOMAIN positions) ~> (StatusOf(s) \in Terminal)


\* C32: a position that manage_positions finds PENDING_ENTRY is at most OPEN
\* when the pass has dealt with it: it is not closed by its stop or target in
\* the pass that observes the fill of its entry.
C32_OneLifecycleStepPerPass ==
    (last.op = "manage" /\ last.before = "PENDING_ENTRY") =>
       positions[last.sym].status \notin {"CLOSED_SL", "CLOSED_TARGET"}


\* the step of manage_positions that deals with the position of s
ManageStep(s) ==
    /\ pc = "manage"
    /\ posKeys[idx] = s
    /\ <<pc, idx>>' # <<pc, idx>>

\* both exit orders of the position of s are FILLED at the broker
BothExitsFilled(s) ==
    /\ positions[s].sl_order_id \in OrderIds
    /\ positions[s].target_order_id \in OrderIds
    /\ orders[positions[s].sl_order_id] = "FILLED"
    /\ orders[positions[s].target_order_id] = "FILLED"

\* C33: when the stop and the target order of an OPEN position are both FILLED
\* at a reconciliation pass, the pass polls the stop order, closes the position
\* as CLOSED_SL, does not poll the target order and issues one cancel, for the
\* target order; a position closed by its stop is never recorded as closed by
\* its target afterwards.
C33_StopWinsDoubleFill ==
    [][\A s \in SymbolSet :
          /\ (ManageStep(s) /\ positions[s].status = "OPEN" /\ BothExitsFilled(s)
                /\ last'.sl # "RAISED") =>
                /\ positions'[s].status = "CLOSED_SL"
                /\ last'.sl = "FILLED"
                /\ last'.tgt = "NOTPOLLED"
                /\ last'.cancelCalls = <<positions[s].target_order_id>>
                /\ trail'[s] = Append(trail[s], "CLOSED_SL")
          /\ StatusOf(s) = "CLOSED_SL" =>
                /\ positions'[s].status = "CLOSED_SL"
                /\ trail'[s] = trail[s]]_vars

C33_Witness ==
    /\ last.op = "manage"
    /\ last.before = "OPEN"
    /\ last.sl = "FILLED"
    /\ last.tgt = "NOTPOLLED"
    /\ positions[last.sym].status = "CLOSED_SL"
    /\ positions[last.sym].target_order_id \in OrderIds
    /\ orders[positions[last.sym].target_order_id] = "FILLED"
    /\ last.cancelCalls = <<positions[last.sym].target_order_id>>


\* C34: no position record is ATTEMPTING once the step of the analysis pass
\* that created it is over: it is PENDING_ENTRY or FAILED by then, whatever
\* the building and the submission of the basket did.
C34_AttemptingNotObservable ==
    \A s \in DOMAIN positions : positions[s].status # "ATTEMPTING"


\* C35: no row of a candle series carries both the bullish and the bearish
\* FVG flag, and check_entry_conditions does not qualify a long and a short
\* entry on the same frame.
C35_GapFlagsExclusive ==
    df.stage = "frame" =>
       LET g == GetFairValueGaps(df.candles)
           sig == EntrySignals(df, g)
       IN  /\ \A i \in 1..Len(g) : ~(g[i].bullish_fvg /\ g[i].bearish_fvg)
           /\ ~(sig[1] /\ sig[2])
           /\ (last.op = "analyze" /\ last.placed) =>
                 (positions[last.sym].type = "LONG" <=> sig[1])

\* a short entry placed on a frame whose FVG candle has a gap on both sides
C35_Witness ==
    /\ df.stage = "frame"
    /\ last.op = "analyze"
    /\ last.placed
    /\ positions[last.sym].type = "SHORT"
    /\ df.candles[4].Low < df.candles[2].High
    /\ df.candles[3].Low > df.candles[1].High
    /\ df.candles[3].High < df.candles[1].Low


\* C36: every history the OI cache holds is non-empty, and no call of
\* get_oi_data fails on the last record of a cached history.
C36_CachedHistoryNonEmpty ==
    tracker.stage = "cache" =>
       /\ \A sym \in DOMAIN tracker.historical_oi : tracker.historical_oi[sym] # <<>>
       /\ ~tracker.raised


\* the keys of a sequence of keys
KeysOf(sent) == {sent[i] : i \in 1..Len(sent)}

\* C37: an update sends at most one order for a key, every key it sends an
\* order for is in the set of active trades afterwards, it sends none for a
\* key that was in the set before unless it has reset the set on a new day,
\* and none at all while trading is disabled.
C37_OneOrderPerKey ==
    [][(tracker.stage = "trades" /\ tracker'.now = tracker.now) =>
          /\ Cardinality(KeysOf(tracker'.sent)) = Len(tracker'.sent)
          /\ KeysOf(tracker'.sent) \subseteq tracker'.active_trades
          /\ (KeysOf(tracker'.sent) \cap tracker.active_trades # {})
                => /\ tracker'.reset
                   /\ tracker'.now.date # tracker.last_run_date
          /\ ~tracker.enabled => tracker'.sent = <<>>]_vars

\* an update that finds the OI change of a traded key above the threshold
\* again and sends no order for it
C37_Witness ==
    /\ tracker.stage = "trades"
    /\ tracker.enabled
    /\ ~tracker.reset
    /\ ~tracker.raised
    /\ tracker.last_update_time = tracker.now
    /\ tracker.now.minute > 0
    /\ \E key \in tracker.crossed :
          key \in tracker.active_trades /\ key \notin KeysOf(tracker.sent)


\* the call that led to the state is a BUY above the cash or a SELL above the
\* holding of the state before
Refused(before, call) ==
    \/ /\ call.side \in {"BUY", "buy"}
       /\ call.quantity * call.price > before.cash
    \/ /\ call.side \in {"SELL", "sell"}
       /\ call.quantity >
             (IF call.symbol \in DOMAIN before.holdings
              THEN before.holdings[call.symbol] ELSE 0)

\* C38: the cash of the ledger is never negative and every holding is above
\* zero; a BUY that costs more than the cash and a SELL of more than is held
\* change neither cash nor holdings nor the list of trades.
C38_LedgerSound ==
    [][portfolio.stage = "ledger" =>
          /\ portfolio'.cash >= 0
          /\ \A s \in DOMAIN portfolio'.holdings : portfolio'.holdings[s] > 0
          /\ Refused(portfolio, portfolio'.call) =>
                /\ portfolio'.cash = portfolio.cash
                /\ portfolio'.holdings = portfolio.holdings
                /\ portfolio'.trades = portfolio.trades
          /\ (~Refused(portfolio, portfolio'.call) /\ portfolio'.call.side # "HOLD") =>
                Len(portfolio'.trades) = Len(portfolio.trades) + 1]_vars

\* a BUY above the cash refused on a ledger that has bought before
C38_Witness ==
    /\ portfolio.stage = "ledger"
    /\ portfolio.call.side = "BUY"
    /\ portfolio.call.quantity * portfolio.call.price > portfolio.cash
    /\ Len(portfolio.trades) = 1
    /\ portfolio.cash = 0
    /\ portfolio.holdings # <<>>


\* C39: run hands the execution manager STRONG BUY or BUY only when the PEAD
\* verdict is PASS, the governance risk level is neither medium nor high and
\* the technical bias is bullish; a stock that fails the PEAD filter gets
\* REJECT with confidence 0 and none of its other analyzers is run; no order
\* is placed and no trade recorded for a verdict other than STRONG BUY, BUY or
\* SELL.
C39_DecisionGating ==
    [][engine.stage = "engine" =>
          /\ (engine'.call = "run" /\ engine'.handed \in {"STRONG BUY", "BUY"}) =>
                /\ engine'.pead = "PASS"
                /\ engine'.risk_level \notin {"Medium", "HIGH"}
                /\ engine'.technical \in {"Bullish", "bullish"}
          /\ (engine'.call = "run" /\ engine'.pead # "PASS") =>
                /\ engine'.verdict = "REJECT"
                /\ engine'.confidence = 0
                /\ engine'.ran = {"pead"}
                /\ engine'.placed = "none"
          /\ engine'.handed \notin {"STRONG BUY", "BUY", "SELL"} =>
                /\ engine'.placed = "none"
                /\ portfolio' = portfolio]_vars

\* a STRONG BUY handed to the live manager, which sends a BUY order
C39_Witness ==
    /\ engine.stage = "engine"
    /\ engine.call = "run"
    /\ engine.handed = "STRONG BUY"
    /\ engine.placed = "BUY"
    /\ engine.risk_level = "Low"
    /\ engine.ran = {"pead", "technical", "fundamental", "news", "governance", "flow"}

====
